---- MODULE Spec2Model ----
(***************************************************************************)
(* Media store of norish: image sniffing and normalisation, the            *)
(* content-addressed image store, the timestamp-named video store, the     *)
(* URL <-> disk path scheme and the remux/transcode video conversion.      *)
(*                                                                         *)
(* Strings that the code inspects character by character (URLs, paths,     *)
(* file names, recipe ids) are tuples of one-character strings, so that    *)
(* the regular expressions and the path functions are computed, not        *)
(* assumed.  Buffers carry their leading twelve bytes as numbers.          *)
(***************************************************************************)
EXTENDS Integers, Sequences, FiniteSets, TLC

VARIABLES files, dirs, now, last, cv, db, calls

vars == <<files, dirs, now, last, cv, db, calls>>

(***************************************************************************)
(* Character helpers (JavaScript string and RegExp primitives)             *)
(***************************************************************************)
LowerAlpha == <<"a","b","c","d","e","f","g","h","i","j","k","l","m",
                "n","o","p","q","r","s","t","u","v","w","x","y","z">>

UpperAlpha == <<"A","B","C","D","E","F","G","H","I","J","K","L","M",
                "N","O","P","Q","R","S","T","U","V","W","X","Y","Z">>

DigitChars == <<"0","1","2","3","4","5","6","7","8","9">>

Range(s) == { s[i] : i \in DOMAIN s }

\* the lower-case letter of every upper-case letter
LowerOf == [c \in Range(UpperAlpha) |-> LowerAlpha[CHOOSE i \in 1..26 : UpperAlpha[i] = c]]

\* String.prototype.toLowerCase, one character
ToLowerChar(c) == IF c \in DOMAIN LowerOf THEN LowerOf[c] ELSE c

\* String.prototype.toLowerCase
ToLower(s) == [i \in 1..Len(s) |-> ToLowerChar(s[i])]

DigitSet == Range(DigitChars)

AlnumSet == Range(LowerAlpha) \cup Range(UpperAlpha) \cup Range(DigitChars)

\* \d
IsDigit(c) == c \in DigitSet

\* [a-zA-Z0-9]
IsAlnum(c) == c \in AlnumSet

\* [a-zA-Z0-9_-]
IsNameChar(c) == IsAlnum(c) \/ c \in {"_", "-"}

\* [a-f0-9-] under the i flag
IsHexDash(c) == ToLowerChar(c) \in {"a","b","c","d","e","f","-"} \/ IsDigit(c)

AllOf(s, P(_)) == \A i \in 1..Len(s) : P(s[i])

\* String.prototype.startsWith
StartsWith(s, p) == Len(s) >= Len(p) /\ SubSeq(s, 1, Len(p)) = p

\* String.prototype.endsWith
EndsWith(s, p) == Len(s) >= Len(p) /\ SubSeq(s, Len(s) - Len(p) + 1, Len(s)) = p

\* String.prototype.indexOf, 1-based, 0 when absent
IndexOf(s, c) ==
  IF \E i \in 1..Len(s) : s[i] = c
    THEN CHOOSE i \in 1..Len(s) : s[i] = c /\ \A j \in 1..(i-1) : s[j] # c
    ELSE 0

\* String.prototype.lastIndexOf, 1-based, 0 when absent
LastIndexOf(s, c) ==
  IF \E i \in 1..Len(s) : s[i] = c
    THEN CHOOSE i \in 1..Len(s) : s[i] = c /\ \A j \in (i+1)..Len(s) : s[j] # c
    ELSE 0

\* the characters after position i
From(s, i) == SubSeq(s, i + 1, Len(s))

RECURSIVE DecimalOf(_)
\* template-literal formatting of a non-negative integer
DecimalOf(n) ==
  IF n < 10 THEN <<DigitChars[n + 1]>>
  ELSE DecimalOf(n \div 10) \o <<DigitChars[(n % 10) + 1]>>

(***************************************************************************)
(* node:path on POSIX, for paths without "." or ".." segments              *)
(***************************************************************************)
\* path.basename(p)
Basename(p) == From(p, LastIndexOf(p, "/"))

\* path.dirname(p)
Dirname(p) ==
  LET i == LastIndexOf(p, "/")
  IN  IF i = 0 THEN <<".">> ELSE IF i = 1 THEN <<"/">> ELSE SubSeq(p, 1, i - 1)

\* path.extname(p): from the last "." of the basename, "" when there is none
\* or when the only "." is the first character
Extname(p) ==
  LET b == Basename(p)
      d == LastIndexOf(b, ".")
  IN  IF d <= 1 \/ b = <<".", ".">> THEN <<>> ELSE SubSeq(b, d, Len(b))

\* path.basename(p, ext): the suffix is removed only on an exact,
\* case-sensitive match
BasenameExt(p, ext) ==
  LET b == Basename(p)
  IN  IF ext # <<>> /\ b # ext /\ EndsWith(b, ext)
        THEN SubSeq(b, 1, Len(b) - Len(ext))
        ELSE b

\* path.join(a, b)
Join(a, b) == a \o <<"/">> \o b

(***************************************************************************)
(* Literals                                                                *)
(***************************************************************************)
E_jpg  == <<".", "j", "p", "g">>
E_jpeg == <<".", "j", "p", "e", "g">>
E_png  == <<".", "p", "n", "g">>
E_webp == <<".", "w", "e", "b", "p">>
E_avif == <<".", "a", "v", "i", "f">>
E_heic == <<".", "h", "e", "i", "c">>
E_mp4  == <<".", "m", "p", "4">>
E_MP4  == <<".", "M", "P", "4">>
E_webm == <<".", "w", "e", "b", "m">>
E_mov  == <<".", "m", "o", "v">>
E_MOV  == <<".", "M", "O", "V">>
E_m4v  == <<".", "m", "4", "v">>

S_recipes == <<"r", "e", "c", "i", "p", "e", "s">>
S_steps   == <<"s", "t", "e", "p", "s">>
S_video   == <<"v", "i", "d", "e", "o", "-">>

\* SERVER_CONFIG.UPLOADS_DIR
UPLOADS_DIR == <<"/", "u", "p">>

RECIPES_BASE_DIR == Join(UPLOADS_DIR, S_recipes)

\* the directory downloadVideo leaves its files in
VIDEO_TEMP_DIR == Join(UPLOADS_DIR, <<"v", "i", "d", "e", "o", "-", "t", "e", "m", "p">>)

ALLOWED_EXTS == {E_jpg, E_jpeg, E_png, E_webp, E_avif}

ALLOWED_VIDEO_EXTS == {E_mp4, E_webm, E_mov, E_m4v}

MAX_IMAGE_FILE_SIZE == 10485760

MAX_VIDEO_FILE_SIZE == 104857600

(***************************************************************************)
(* Buffers: id names the byte content (equal bytes <=> equal id), bytes    *)
(* are the leading min(len, 12) bytes, len is buffer.length, pix names the *)
(* picture the bytes decode to (0: they do not decode).                    *)
(***************************************************************************)
H_jpeg == <<255, 216, 255, 224, 0, 16, 74, 70, 73, 70, 0, 1>>
H_png  == <<137, 80, 78, 71, 13, 10, 26, 10, 0, 0, 0, 13>>
H_webp == <<82, 73, 70, 70, 36, 0, 0, 0, 87, 69, 66, 80>>
H_avif == <<0, 0, 0, 28, 102, 116, 121, 112, 97, 118, 105, 102>>
H_heic == <<0, 0, 0, 24, 102, 116, 121, 112, 104, 101, 105, 99>>
H_isom == <<0, 0, 0, 32, 102, 116, 121, 112, 105, 115, 111, 109>>
H_qt   == <<0, 0, 0, 20, 102, 116, 121, 112, 113, 116, 32, 32>>
H_webm == <<26, 69, 223, 163, 1, 0, 0, 0, 0, 0, 0, 31>>
H_junk == <<0, 1, 2, 3, 4, 5, 6, 7, 8, 9, 10, 11>>

\* buf.slice(8, 12).toString("ascii"): decoding clears the high bit
Brand(b) == [i \in 1..4 |-> b[8 + i] % 128]

A_avif == <<97, 118, 105, 102>>
A_heic == <<104, 101, 105, 99>>
A_mif1 == <<109, 105, 102, 49>>
A_msf1 == <<109, 115, 102, 49>>
A_hei  == <<104, 101, 105>>
A_hev  == <<104, 101, 118>>
A_qt   == <<113, 116, 32, 32>>
A_moov == <<109, 111, 111, 118>>

HasFtyp(b) == b[5] = 102 /\ b[6] = 116 /\ b[7] = 121 /\ b[8] = 112

\* undefined (and the empty string, which the code tests the same way)
Undefined == <<>>

extFromBuffer(buf) ==
  LET b == buf.bytes
  IN  IF buf.len < 12 THEN Undefined
      ELSE IF b[1] = 255 /\ b[2] = 216 /\ b[3] = 255 THEN E_jpg
      ELSE IF SubSeq(b, 1, 8) = SubSeq(H_png, 1, 8) THEN E_png
      ELSE IF SubSeq(b, 1, 4) = <<82, 73, 70, 70>> /\ SubSeq(b, 9, 12) = <<87, 69, 66, 80>>
        THEN E_webp
      ELSE IF HasFtyp(b)
        THEN IF Brand(b) = A_avif THEN E_avif
             ELSE IF \/ Brand(b) \in {A_heic, A_mif1, A_msf1}
                     \/ SubSeq(Brand(b), 1, 3) \in {A_hei, A_hev}
               THEN E_heic
             ELSE Undefined
      ELSE Undefined

isValidImageBuffer(buffer) ==
  IF buffer.len < 100 THEN FALSE ELSE extFromBuffer(buffer) # Undefined

extFromVideoBuffer(buf) ==
  LET b == buf.bytes
  IN  IF buf.len < 12 THEN Undefined
      ELSE IF HasFtyp(b)
        THEN IF Brand(b) \in {A_qt, A_moov} THEN E_mov ELSE E_mp4
      ELSE IF SubSeq(b, 1, 4) = <<26, 69, 223, 163>> THEN E_webm
      ELSE Undefined

(***************************************************************************)
(* Image normalisation                                                     *)
(***************************************************************************)
M_jpeg == <<"i", "m", "a", "g", "e", "/", "j", "p", "e", "g">>
M_jpg  == <<"i", "m", "a", "g", "e", "/", "j", "p", "g">>
M_png  == <<"i", "m", "a", "g", "e", "/", "p", "n", "g">>
M_webp == <<"i", "m", "a", "g", "e", "/", "w", "e", "b", "p">>
M_avif == <<"i", "m", "a", "g", "e", "/", "a", "v", "i", "f">>
M_heic == <<"i", "m", "a", "g", "e", "/", "h", "e", "i", "c">>
M_html == <<"t", "e", "x", "t", "/", "h", "t", "m", "l">>
M_image == <<"i", "m", "a", "g", "e", "/">>

\* Map.get: undefined for a key that is not in the map
CT_TO_EXT(mime) ==
  IF mime \in {M_jpeg, M_jpg} THEN E_jpg
  ELSE IF mime = M_png THEN E_png
  ELSE IF mime = M_webp THEN E_webp
  ELSE IF mime = M_avif THEN E_avif
  ELSE Undefined

RECURSIVE TrimLeft(_)
TrimLeft(s) == IF s # <<>> /\ Head(s) = " " THEN TrimLeft(Tail(s)) ELSE s

RECURSIVE TrimRight(_)
TrimRight(s) ==
  IF s # <<>> /\ s[Len(s)] = " " THEN TrimRight(SubSeq(s, 1, Len(s) - 1)) ELSE s

\* String.prototype.trim
Trim(s) == TrimRight(TrimLeft(s))

\* ct.split(";", 1)[0]
BeforeSemicolon(ct) ==
  LET i == IndexOf(ct, ";") IN IF i = 0 THEN ct ELSE SubSeq(ct, 1, i - 1)

extFromContentType(ct) ==
  IF ct = Undefined THEN Undefined
  ELSE CT_TO_EXT(ToLower(Trim(BeforeSemicolon(ct))))

\* u is the outcome of new URL(u): whether it parses, and its pathname
extFromUrl(u) ==
  IF ~u.valid THEN Undefined
  ELSE LET ext == ToLower(Extname(u.pathname))
       IN  IF ext \in ALLOWED_EXTS THEN ext ELSE Undefined

deriveExtFromBytes(url, contentType, bytes) ==
  LET ctExt == IF contentType # Undefined THEN extFromContentType(contentType) ELSE Undefined
      sniff == extFromBuffer(bytes)
      urlExt == extFromUrl(url)
  IN  IF ctExt # Undefined THEN ctExt
      ELSE IF sniff # Undefined THEN sniff
      ELSE IF urlExt # Undefined THEN urlExt
      ELSE E_jpg

\* the JPEG that sharp encodes for picture pix
JpegOf(pix) == [id |-> pix, bytes |-> H_jpeg, len |-> 1024 + pix, pix |-> pix]

\* The outcome of convertToJpeg: ok is FALSE when it throws, heic tells
\* whether the heic-convert stage ran, out is the JPEG buffer.  heic-convert
\* decodes HEIC only; sharp decodes everything the sniffer knows but HEIC.
convertToJpeg(buffer, sourceExt) ==
  LET heicStage == sourceExt = E_heic
      isHeic == extFromBuffer(buffer) = E_heic
      heicOk == isHeic /\ buffer.pix # 0
      sharpOk == IF heicStage THEN TRUE ELSE ~isHeic /\ buffer.pix # 0
  IN  IF ~isValidImageBuffer(buffer)
        THEN [ok |-> FALSE, heic |-> FALSE, out |-> buffer]
      ELSE IF heicStage /\ ~heicOk
        THEN [ok |-> FALSE, heic |-> TRUE, out |-> buffer]
      ELSE IF ~sharpOk
        THEN [ok |-> FALSE, heic |-> heicStage, out |-> buffer]
      ELSE [ok |-> TRUE, heic |-> heicStage, out |-> JpegOf(buffer.pix)]

HexChars == <<"0", "1", "2", "3", "4", "5", "6", "7", "8", "9", "a", "b", "c", "d", "e", "f">>

UuidStem == <<"6", "b", "a", "7", "b", "8", "1", "0", "-", "9", "d", "a", "d", "-", "5", "1", "d", "1", "-", "8", "0", "b", "4", "-", "0", "0", "c", "0", "4", "f", "d", "4", "3", "0">>

\* uuidv5 of the SHA-256 of the bytes: a 36-character name, one per content
uuidFromBytes(bytes) ==
  UuidStem \o <<HexChars[((bytes.id \div 16) % 16) + 1], HexChars[(bytes.id % 16) + 1]>>

(***************************************************************************)
(* URL scheme: the regular expressions of the delete operations            *)
(***************************************************************************)
P_recipes == <<"/">> \o S_recipes \o <<"/">>

NoMatch == [ok |-> FALSE, recipeId |-> <<>>, filename |-> <<>>]

\* the part after "/recipes/", split at its first "/": ([a-f0-9-]+)\/(.*)
SplitRecipeUrl(url) ==
  IF ~StartsWith(ToLower(url), P_recipes) THEN NoMatch
  ELSE LET rest == From(url, Len(P_recipes))
           i == IndexOf(rest, "/")
       IN  IF i < 2 \/ ~AllOf(SubSeq(rest, 1, i - 1), IsHexDash) THEN NoMatch
           ELSE [ok |-> TRUE, recipeId |-> SubSeq(rest, 1, i - 1), filename |-> From(rest, i)]

\* [^/]+
IsSegment(s) == s # <<>> /\ IndexOf(s, "/") = 0

\* the canonical pattern taken for the one that also matches gallery URLs
MatchRecipeImageUrl_withGallery(url) ==
  LET m == SplitRecipeUrl(url)
      g == <<"g", "a", "l", "l", "e", "r", "y", "/">>
      f == IF m.ok /\ StartsWith(m.filename, g) THEN From(m.filename, Len(g)) ELSE m.filename
  IN  IF m.ok /\ IsSegment(f) THEN [m EXCEPT !.filename = f] ELSE NoMatch

\* /^\/recipes\/([a-f0-9-]+)\/([^/]+)$/i
MatchRecipeImageUrl(url) ==
  LET m == SplitRecipeUrl(url)
  IN  IF m.ok /\ IsSegment(m.filename) THEN m ELSE NoMatch

\* /^\/recipes\/([a-f0-9-]+)\/steps\/([^/]+)$/i
MatchStepImageUrl(url) ==
  LET m == SplitRecipeUrl(url)
      p == S_steps \o <<"/">>
  IN  IF m.ok /\ StartsWith(ToLower(m.filename), p) /\ IsSegment(From(m.filename, Len(p)))
        THEN [m EXCEPT !.filename = From(m.filename, Len(p))]
        ELSE NoMatch

\* /^\/recipes\/([a-f0-9-]+)\/(video-[^/]+)$/i
MatchVideoUrl(url) ==
  LET m == SplitRecipeUrl(url)
  IN  IF /\ m.ok /\ IsSegment(m.filename)
         /\ StartsWith(ToLower(m.filename), S_video)
         /\ Len(m.filename) > Len(S_video)
        THEN m ELSE NoMatch

\* the {36} quantifier written as +
IsRecipeId_anyLength(s) == s # <<>> /\ AllOf(s, IsHexDash)

\* /^[a-f0-9-]{36}$/i
IsRecipeId(s) == Len(s) = 36 /\ AllOf(s, IsHexDash)

\* /^[a-zA-Z0-9_-]+\.[a-zA-Z0-9]+$/
IsImageFilename(s) ==
  LET d == IndexOf(s, ".")
  IN  /\ d >= 2 /\ d < Len(s)
      /\ AllOf(SubSeq(s, 1, d - 1), IsNameChar)
      /\ AllOf(From(s, d), IsAlnum)

\* /^video-\d+\.[a-zA-Z0-9]+$/
IsVideoFilename(s) ==
  LET d == IndexOf(s, ".")
  IN  /\ StartsWith(s, S_video)
      /\ d >= Len(S_video) + 2 /\ d < Len(s)
      /\ AllOf(SubSeq(s, Len(S_video) + 1, d - 1), IsDigit)
      /\ AllOf(From(s, d), IsAlnum)

(***************************************************************************)
(* Bounds and inputs                                                       *)
(***************************************************************************)
\* Date.now() advances to at most MaxClock
MaxClock == 10

\* a save is followed as long as it leaves at most MaxStored files stored
MaxStored == 1

ID_A == <<"5", "5", "0", "e", "8", "4", "0", "0", "-", "e", "2", "9", "b", "-", "4", "1", "d", "4", "-", "a", "7", "1", "6", "-", "4", "4", "6", "6", "5", "5", "4", "4", "0", "0", "0", "0">>

\* a recipe id that is hex but not 36 characters long
ID_short == <<"a", "b", "c", "1", "2", "3">>

RecipeIds == {ID_A}

B_jpgA    == [id |-> 16, bytes |-> H_jpeg, len |-> 2048, pix |-> 1]
B_pngA    == [id |-> 17, bytes |-> H_png, len |-> 4096, pix |-> 1]
B_heicB   == [id |-> 18, bytes |-> H_heic, len |-> 3000, pix |-> 2]
B_webpB   == [id |-> 19, bytes |-> H_webp, len |-> MAX_IMAGE_FILE_SIZE, pix |-> 2]
B_tiny    == [id |-> 20, bytes |-> H_jpeg, len |-> 50, pix |-> 0]
B_junk    == [id |-> 21, bytes |-> H_junk, len |-> 2048, pix |-> 0]
B_corrupt == [id |-> 23, bytes |-> H_avif, len |-> 2048, pix |-> 0]
B_huge    == [id |-> 24, bytes |-> H_jpeg, len |-> MAX_IMAGE_FILE_SIZE + 1, pix |-> 1]

ImageBufs == {B_jpgA, B_pngA, B_heicB, B_webpB, B_tiny, B_junk, B_corrupt, B_huge}

V_isom == [id |-> 32, bytes |-> H_isom, len |-> 5000, pix |-> 0]
V_qt   == [id |-> 33, bytes |-> H_qt, len |-> MAX_VIDEO_FILE_SIZE, pix |-> 0]
V_webm == [id |-> 34, bytes |-> H_webm, len |-> 5000, pix |-> 0]
V_junk == [id |-> 35, bytes |-> H_junk, len |-> 5000, pix |-> 0]
V_huge == [id |-> 36, bytes |-> H_isom, len |-> MAX_VIDEO_FILE_SIZE + 1, pix |-> 0]

\* the bytes and the originalExt saveVideoBytes is called with
VideoUploads ==
  {<<V_isom, Undefined>>, <<V_qt, Undefined>>, <<V_webm, E_MOV>>, <<V_huge, Undefined>>,
   <<V_junk, <<"M", "O", "V">>>>, <<V_junk, <<".", "e", "x", "e">>>>}

N_clip == <<"c", "l", "i", "p">>

T_webm  == Join(VIDEO_TEMP_DIR, N_clip \o E_webm)
T_MOV   == Join(VIDEO_TEMP_DIR, N_clip \o E_MOV)
T_mp4   == Join(VIDEO_TEMP_DIR, N_clip \o E_mp4)
T_MP4   == Join(VIDEO_TEMP_DIR, <<"C", "L", "I", "P">> \o E_MP4)
T_noext == Join(VIDEO_TEMP_DIR, N_clip)
T_big   == Join(VIDEO_TEMP_DIR, <<"b", "i", "g">> \o E_mp4)
T_gone  == Join(VIDEO_TEMP_DIR, <<"g", "o", "n", "e">> \o E_mp4)

\* sourcePath of saveVideoFile
SourcePaths == {T_webm, T_MOV, T_noext, T_big, T_gone}

\* what the file system holds for a buffer
FileOf(buf) == [id |-> buf.id, len |-> buf.len]

(***************************************************************************)
(* The database                                                            *)
(***************************************************************************)
\* a nullable value is <<>> for null and <<v>> for the value v
Null == <<>>

\* the database before anything is configured
DbInit == [videoConfig |-> Null, recipes |-> {}, recipeVideos |-> {}, config |-> <<>>]

\* no request is being served
NoCalls == <<>>

\* the size test taken for one that also refuses a payload at the limit
ExceedsMax_orEqual(size, max) == size >= max

\* bytes.length > max, stats.size > max
ExceedsMax(size, max) == size > max

(***************************************************************************)
(* fs/promises                                                             *)
(***************************************************************************)
RECURSIVE DirChain(_)
\* the directories mkdir(dir, {recursive: true}) makes sure exist
DirChain(dir) == IF Len(dir) <= 1 THEN {} ELSE {dir} \cup DirChain(Dirname(dir))

ensureDir(ds, dir) == ds \cup DirChain(dir)

fileExists_never(fp) == FALSE

fileExists(fp) == fp \in DOMAIN files

\* fs.writeFile and fs.copyFile: create or replace
WriteFile(fs, fp, content) == (fp :> content) @@ fs

\* fs.unlink of an existing file
Unlink(fs, fp) == [p \in DOMAIN fs \ {fp} |-> fs[p]]

StoredIn(fs) == { p \in DOMAIN fs : StartsWith(p, RECIPES_BASE_DIR) }

Stored == StoredIn(files)

\* the URL a stored file is served under
UrlOfPath(p) == From(p, Len(UPLOADS_DIR))

(***************************************************************************)
(* The image store                                                         *)
(***************************************************************************)
\* what an operation leaves behind: the file system, how it ended (res is
\* "ok" or names the error thrown), the URL returned, the disk path it
\* worked on, whether it wrote, the source format that drove normalisation,
\* whether the HEIC stage ran and the id of the normalised bytes
Outcome(ds, res) ==
  [dirs |-> ds, files |-> files, res |-> res, url |-> <<>>, path |-> <<>>,
   wrote |-> FALSE, sourceExt |-> <<>>, heic |-> FALSE, norm |-> 0]

\* the tail both saveImageBytesCore and downloadImage end with
StoreJpeg(ds, directory, webPrefix, finalBytes, sourceExt, heic) ==
  LET fileName == uuidFromBytes(finalBytes) \o E_jpg
      filePath == Join(directory, fileName)
      write == ~fileExists(filePath)
  IN  [dirs |-> ds,
       files |-> IF write THEN WriteFile(files, filePath, FileOf(finalBytes)) ELSE files,
       res |-> "ok", url |-> webPrefix \o <<"/">> \o fileName, path |-> filePath,
       wrote |-> write, sourceExt |-> sourceExt, heic |-> heic, norm |-> finalBytes.id]

saveImageBytesCore(bytes, directory, webPrefix) ==
  LET ds == ensureDir(dirs, directory)
      detectedExt == extFromBuffer(bytes)
      conv == convertToJpeg(bytes, detectedExt)
  IN  IF ExceedsMax(bytes.len, MAX_IMAGE_FILE_SIZE) THEN Outcome(ds, "too_large")
      ELSE IF ~isValidImageBuffer(bytes) THEN Outcome(ds, "not_image")
      ELSE IF detectedExt = Undefined THEN Outcome(ds, "no_format")
      ELSE IF ~conv.ok THEN [Outcome(ds, "convert_failed") EXCEPT
                               !.sourceExt = detectedExt, !.heic = conv.heic]
      ELSE StoreJpeg(ds, directory, webPrefix, conv.out, detectedExt, conv.heic)

Finish(op, recipeId, bytes, r) ==
  /\ dirs' = r.dirs
  /\ files' = r.files
  /\ last' = [op |-> op, recipeId |-> recipeId, bytes |-> bytes.id,
              sniff |-> extFromBuffer(bytes), res |-> r.res, url |-> r.url,
              path |-> r.path, wrote |-> r.wrote, sourceExt |-> r.sourceExt,
              heic |-> r.heic, norm |-> r.norm]
  /\ UNCHANGED <<now, cv, db, calls>>

NoBytes == [id |-> 0, bytes |-> <<>>, len |-> 0, pix |-> 0]

saveImageBytes(bytes, recipeId) ==
  /\ Finish("saveImageBytes", recipeId, bytes,
            saveImageBytesCore(bytes, Join(RECIPES_BASE_DIR, recipeId),
                               P_recipes \o recipeId))
  /\ Cardinality(StoredIn(files')) <= MaxStored

saveStepImageBytes(bytes, recipeId) ==
  /\ Finish("saveStepImageBytes", recipeId, bytes,
            saveImageBytesCore(bytes, Join(Join(RECIPES_BASE_DIR, recipeId), S_steps),
                               P_recipes \o recipeId \o <<"/">> \o S_steps))
  /\ Cardinality(StoredIn(files')) <= MaxStored

\* the checks a delete makes before it builds a path: "ok" or the error
CheckImageUrl(m) ==
  IF ~m.ok THEN "invalid_url"
  ELSE IF ~IsRecipeId(m.recipeId) THEN "invalid_recipe_id"
  ELSE IF ~IsImageFilename(m.filename) THEN "invalid_filename"
  ELSE "ok"

deleteImageByUrlCore(url, m, filePath) ==
  IF CheckImageUrl(m) # "ok" THEN Outcome(dirs, CheckImageUrl(m))
  ELSE IF ~(filePath \in DOMAIN files)
    THEN [Outcome(dirs, "unlink_failed") EXCEPT !.path = filePath]
  ELSE [Outcome(dirs, "ok") EXCEPT !.path = filePath, !.files = Unlink(files, filePath)]

deleteImageByUrl(url) ==
  LET m == MatchRecipeImageUrl(url)
  IN  Finish("deleteImageByUrl", m.recipeId, NoBytes,
        [deleteImageByUrlCore(url, m, Join(Join(RECIPES_BASE_DIR, m.recipeId), m.filename))
           EXCEPT !.url = url])

deleteStepImageByUrl(url) ==
  LET m == MatchStepImageUrl(url)
  IN  Finish("deleteStepImageByUrl", m.recipeId, NoBytes,
        [deleteImageByUrlCore(url, m,
            Join(Join(Join(RECIPES_BASE_DIR, m.recipeId), S_steps), m.filename))
           EXCEPT !.url = url])

(***************************************************************************)
(* downloadImage                                                           *)
(***************************************************************************)
M_png_q == <<"i", "m", "a", "g", "e", "/", "p", "n", "g", " ", ";", " ", "q", "=", "1">>

U_png   == [valid |-> TRUE, pathname |-> <<"/", "a", "/", "p", "h", "o", "t", "o", ".", "p", "n", "g">>]
U_noext == [valid |-> TRUE, pathname |-> <<"/", "a", "/", "p", "h", "o", "t", "o">>]
U_bad   == [valid |-> FALSE, pathname |-> <<>>]

\* what fetch gives: fetch is "error" when it throws or times out; ok and
\* body are res.ok and res.body; contentLength is -1 without the header
Responses ==
  {[fetch |-> "error", ok |-> FALSE, body |-> FALSE, contentType |-> Undefined,
    contentLength |-> -1, bytes |-> B_junk],
   [fetch |-> "ok", ok |-> FALSE, body |-> TRUE, contentType |-> M_html,
    contentLength |-> -1, bytes |-> B_junk],
   [fetch |-> "ok", ok |-> TRUE, body |-> TRUE, contentType |-> M_jpeg,
    contentLength |-> MAX_IMAGE_FILE_SIZE + 1, bytes |-> B_jpgA]}
  \cup
  {[fetch |-> "ok", ok |-> TRUE, body |-> TRUE, contentType |-> x[1],
    contentLength |-> -1, bytes |-> x[2]] :
      x \in {<<Undefined, B_jpgA>>, <<M_jpeg, B_jpgA>>, <<M_png_q, B_pngA>>,
             <<M_jpeg, B_pngA>>, <<M_heic, B_heicB>>, <<M_jpeg, B_heicB>>,
             <<Undefined, B_junk>>, <<M_html, B_jpgA>>, <<M_jpeg, B_huge>>}}

\* the URLs downloadImage is called with and what fetch gives for each
Downloads ==
  {<<U_png, resp>> : resp \in Responses}
  \cup {<<U_noext, resp>> : resp \in {x \in Responses : x.bytes = B_junk /\ x.ok}}
  \cup {<<U_bad, resp>> : resp \in {x \in Responses : x.fetch = "error"}}

downloadImageCore(url, recipeId, resp) ==
  LET recipeDir == Join(RECIPES_BASE_DIR, recipeId)
      ds == ensureDir(dirs, recipeDir)
      contentType == resp.contentType
      bytes == resp.bytes
      ext == deriveExtFromBytes(url, contentType, bytes)
      normalise == ext \in {E_heic, E_avif, E_png, E_webp, E_jpg, E_jpeg}
      conv == convertToJpeg(bytes, ext)
  IN  IF ~url.valid THEN Outcome(ds, "invalid_url")
      ELSE IF resp.fetch = "error" THEN Outcome(ds, "fetch_failed")
      ELSE IF ~resp.ok \/ ~resp.body THEN Outcome(ds, "download_failed")
      ELSE IF contentType # Undefined /\ ~StartsWith(contentType, M_image)
        THEN Outcome(ds, "not_image_type")
      ELSE IF resp.contentLength >= 0 /\ resp.contentLength > MAX_IMAGE_FILE_SIZE
        THEN Outcome(ds, "too_large")
      ELSE IF bytes.len > MAX_IMAGE_FILE_SIZE THEN Outcome(ds, "too_large")
      ELSE IF ~isValidImageBuffer(bytes)
        THEN [Outcome(ds, "not_image") EXCEPT !.sourceExt = ext]
      ELSE IF normalise /\ ~conv.ok
        THEN [Outcome(ds, "convert_failed") EXCEPT !.sourceExt = ext, !.heic = conv.heic]
      ELSE StoreJpeg(ds, recipeDir, P_recipes \o recipeId,
                     IF normalise THEN conv.out ELSE bytes, ext,
                     normalise /\ conv.heic)

downloadImage(url, recipeId, resp) ==
  /\ Finish("downloadImage", recipeId, resp.bytes, downloadImageCore(url, recipeId, resp))
  /\ Cardinality(StoredIn(files')) <= MaxStored

(***************************************************************************)
(* The video store                                                         *)
(***************************************************************************)
\* videoConfig?.maxVideoFileSize ?? SERVER_CONFIG.MAX_VIDEO_FILE_SIZE
getMaxVideoFileSize ==
  IF db.videoConfig = Null THEN MAX_VIDEO_FILE_SIZE ELSE db.videoConfig[1].maxVideoFileSize

VideoFileName(timestamp, ext) == S_video \o DecimalOf(timestamp) \o ext

saveVideoFileCore(sourcePath, recipeId) ==
  LET recipeDir == Join(RECIPES_BASE_DIR, recipeId)
      ds == ensureDir(dirs, recipeDir)
      ext == ToLower(Extname(sourcePath))
      fileName == VideoFileName(now, ext)
      destPath == Join(recipeDir, fileName)
  IN  IF ~(sourcePath \in DOMAIN files) THEN Outcome(ds, "stat_failed")
      ELSE IF ExceedsMax(files[sourcePath].len, getMaxVideoFileSize) THEN Outcome(ds, "too_large")
      ELSE [Outcome(ds, "ok") EXCEPT
              !.files = WriteFile(files, destPath, files[sourcePath]),
              !.url = P_recipes \o recipeId \o <<"/">> \o fileName,
              !.path = destPath, !.wrote = TRUE]

saveVideoFile(sourcePath, recipeId) ==
  /\ Finish("saveVideoFile", recipeId, NoBytes, saveVideoFileCore(sourcePath, recipeId))
  /\ Cardinality(StoredIn(files')) <= MaxStored

saveVideoBytesCore(bytes, recipeId, originalExt) ==
  LET recipeDir == Join(RECIPES_BASE_DIR, recipeId)
      ds == ensureDir(dirs, recipeDir)
      sniffed == extFromVideoBuffer(bytes)
      normalizedExt == IF StartsWith(originalExt, <<".">>)
                         THEN ToLower(originalExt)
                         ELSE <<".">> \o ToLower(originalExt)
      hinted == IF sniffed = Undefined /\ originalExt # Undefined
                   /\ normalizedExt \in ALLOWED_VIDEO_EXTS
                  THEN normalizedExt ELSE sniffed
      ext == IF hinted = Undefined THEN E_mp4 ELSE hinted
      fileName == VideoFileName(now, ext)
      filePath == Join(recipeDir, fileName)
  IN  IF ExceedsMax(bytes.len, getMaxVideoFileSize) THEN Outcome(ds, "too_large")
      ELSE [Outcome(ds, "ok") EXCEPT
              !.files = WriteFile(files, filePath, FileOf(bytes)),
              !.url = P_recipes \o recipeId \o <<"/">> \o fileName,
              !.path = filePath, !.wrote = TRUE]

saveVideoBytes(bytes, recipeId, originalExt) ==
  /\ Finish("saveVideoBytes", recipeId, bytes, saveVideoBytesCore(bytes, recipeId, originalExt))
  /\ Cardinality(StoredIn(files')) <= MaxStored

CheckVideoUrl(m) ==
  IF ~m.ok THEN "invalid_url"
  ELSE IF ~IsRecipeId(m.recipeId) THEN "invalid_recipe_id"
  ELSE IF ~IsVideoFilename(m.filename) THEN "invalid_filename"
  ELSE "ok"

deleteVideoByUrlCore(url) ==
  LET m == MatchVideoUrl(url)
      filePath == Join(Join(RECIPES_BASE_DIR, m.recipeId), m.filename)
  IN  IF CheckVideoUrl(m) # "ok" THEN Outcome(dirs, CheckVideoUrl(m))
      ELSE IF ~(filePath \in DOMAIN files)
        THEN [Outcome(dirs, "unlink_failed") EXCEPT !.path = filePath]
      ELSE [Outcome(dirs, "ok") EXCEPT !.path = filePath, !.files = Unlink(files, filePath)]

deleteVideoByUrl(url) ==
  Finish("deleteVideoByUrl", MatchVideoUrl(url).recipeId, NoBytes,
         [deleteVideoByUrlCore(url) EXCEPT !.url = url])

\* Date.now() moves on between two operations
Tick ==
  /\ now < MaxClock
  /\ now' = now + 1
  /\ UNCHANGED <<files, dirs, last, cv, db, calls>>

(***************************************************************************)
(* The store: its initial state and its operations                         *)
(***************************************************************************)
U_flat    == P_recipes \o <<"i", "m", "a", "g", "e", "s", "/", "o", "l", "d", ".", "j", "p", "g">>
U_gallery == P_recipes \o ID_A \o <<"/", "g", "a", "l", "l", "e", "r", "y", "/", "o", "l", "d", ".", "j", "p", "g">>
U_missing == P_recipes \o ID_A \o <<"/", "m", "i", "s", "s", "i", "n", "g", ".", "j", "p", "g">>
U_shortid == P_recipes \o ID_short \o <<"/", "o", "l", "d", ".", "j", "p", "g">>
U_novideo == P_recipes \o ID_A \o <<"/", "v", "i", "d", "e", "o", "-", "5", ".", "m", "p", "4">>

\* the URLs a delete is asked for: those of the stored files and some others
DeleteUrls == { UrlOfPath(p) : p \in Stored } \cup {U_flat, U_gallery, U_missing, U_shortid, U_novideo}

NoOp == [op |-> "none", recipeId |-> <<>>, bytes |-> 0, sniff |-> <<>>, res |-> "ok",
         url |-> <<>>, path |-> <<>>, wrote |-> FALSE, sourceExt |-> <<>>, heic |-> FALSE,
         norm |-> 0]

CvIdle == [pc |-> "idle", inputPath |-> <<>>, outputPath |-> <<>>, ffmpegPath |-> <<>>,
           spawned |-> <<>>, result |-> [filePath |-> <<>>, converted |-> FALSE, method |-> "none"],
           rejected |-> FALSE, before |-> <<>>]

\* the uploads directory with the files downloadVideo left in video-temp
Init ==
  /\ files = (T_webm :> FileOf(V_webm)) @@ (T_MOV :> FileOf(V_qt))
             @@ (T_noext :> FileOf(V_isom)) @@ (T_big :> FileOf(V_huge))
  /\ dirs = DirChain(VIDEO_TEMP_DIR)
  /\ now = 9
  /\ last = NoOp
  /\ cv = CvIdle
  /\ db = DbInit
  /\ calls = NoCalls

Next ==
  \/ \E b \in ImageBufs, r \in RecipeIds : saveImageBytes(b, r)
  \/ \E b \in ImageBufs, r \in RecipeIds : saveStepImageBytes(b, r)
  \/ \E d \in Downloads, r \in RecipeIds : downloadImage(d[1], r, d[2])
  \/ \E s \in SourcePaths, r \in RecipeIds : saveVideoFile(s, r)
  \/ \E v \in VideoUploads, r \in RecipeIds : saveVideoBytes(v[1], r, v[2])
  \/ \E u \in DeleteUrls : deleteImageByUrl(u)
  \/ \E u \in DeleteUrls : deleteStepImageByUrl(u)
  \/ \E u \in DeleteUrls : deleteVideoByUrl(u)
  \/ Tick

Spec == Init /\ [][Next]_vars

(***************************************************************************)
(* convertToMp4: one call at a time, a step per external process           *)
(***************************************************************************)
\* getFfmpegPath(): null, or the path of the executable
FFMPEG == <<"/", "b", "i", "n", "/", "f", "f", "m", "p", "e", "g">>

FfmpegPaths == {Undefined, FFMPEG}

\* inputPath of convertToMp4
InputPaths == {T_webm, T_MOV, T_mp4, T_MP4, T_noext}

\* the bytes downloadVideo leaves at a path
Downloaded(p) == IF ToLower(Extname(p)) = E_webm THEN FileOf(V_webm) ELSE FileOf(V_qt)

\* what an ffmpeg process leaves at its output path: -y replaces the file
F_remuxed    == [id |-> 48, len |-> 4000]
F_transcoded == [id |-> 49, len |-> 3000]
F_partial    == [id |-> 50, len |-> 100]
F_empty      == [id |-> 0, len |-> 0]

\* One run of the external process: exit is "zero", "nonzero" or "error"
\* (the spawn failed); out is what it left at the output path ("none": it
\* did not touch it).  A process that could not be spawned writes nothing,
\* and ffmpeg exits 0 only when it could read its input.
FfmpegRuns(inputExists) ==
  {[exit |-> "error", out |-> "none"]}
  \cup {[exit |-> "nonzero", out |-> o] : o \in {"none", "empty", "partial"}}
  \cup IF inputExists
         THEN {[exit |-> "zero", out |-> o] : o \in {"none", "empty", "data"}}
         ELSE {}

AfterFfmpeg(fs, outputPath, run, method) ==
  IF run.out = "none" THEN fs
  ELSE WriteFile(fs, outputPath,
         IF run.out = "empty" THEN F_empty
         ELSE IF run.out = "partial" THEN F_partial
         ELSE IF method = "remux" THEN F_remuxed ELSE F_transcoded)

\* runFfmpeg rejects unless the process closes with code 0
runFfmpegRejects(run) == run.exit # "zero"

\* what fs.stat(outputPath) shows: "absent" (it throws), "empty" or "data"
StatOf(fs, fp) ==
  IF ~(fp \in DOMAIN fs) THEN "absent" ELSE IF fs[fp].len > 0 THEN "data" ELSE "empty"

\* stats.size > 0
OutputOk(seen) == seen = "data"

UnlinkQuietly_noop(fs, fp) == fs

\* fs.unlink(p).catch(() => {})
UnlinkQuietly(fs, fp) == IF fp \in DOMAIN fs THEN Unlink(fs, fp) ELSE fs

\* The body of one try block: the process runs, the output is inspected and
\* on success the input is removed.  thrown tells that the block threw.
TryBlock(fs, inputPath, outputPath, run, method) ==
  LET fs1 == AfterFfmpeg(fs, outputPath, run, method)
      seen == StatOf(fs1, outputPath)
  IN  IF runFfmpegRejects(run)
        THEN [files |-> fs1, thrown |-> TRUE, success |-> FALSE, seen |-> "unseen"]
      ELSE IF seen = "absent"
        THEN [files |-> fs1, thrown |-> TRUE, success |-> FALSE, seen |-> seen]
      ELSE IF OutputOk(seen)
        THEN [files |-> UnlinkQuietly(fs1, inputPath), thrown |-> FALSE,
              success |-> TRUE, seen |-> seen]
      ELSE [files |-> fs1, thrown |-> FALSE, success |-> FALSE, seen |-> seen]

CatchBlock_rethrow(t, outputPath) == [t EXCEPT !.thrown = t.thrown]

\* The catch block: the error is logged, the output removed, nothing is
\* thrown on
CatchBlock(t, outputPath) ==
  IF t.thrown
    THEN [t EXCEPT !.files = UnlinkQuietly(t.files, outputPath), !.thrown = FALSE]
    ELSE t

AlreadyMp4_caseSensitive(inputPath) == Extname(inputPath) = E_mp4

\* path.extname(inputPath).toLowerCase() === ".mp4"
AlreadyMp4(inputPath) == ToLower(Extname(inputPath)) = E_mp4

NoFfmpeg_never(ffmpegPath) == FALSE

\* !ffmpegPath
NoFfmpeg(ffmpegPath) == ffmpegPath = Undefined

OutputPathOf(inputPath) ==
  LET ext == ToLower(Extname(inputPath))
  IN  Join(Dirname(inputPath), BasenameExt(inputPath, ext) \o E_mp4)

NextStage_giveUp(method) == "done"

\* after the remux block comes the transcode block, after that the return
NextStage(method) == IF method = "remux" THEN "transcode" ELSE "done"

Result(filePath, converted, method) ==
  [filePath |-> filePath, converted |-> converted, method |-> method]

\* the call, up to its first external process
convertToMp4(inputPath, ffmpegPath) ==
  /\ cv.pc = "idle"
  /\ LET call == [CvIdle EXCEPT !.inputPath = inputPath, !.ffmpegPath = ffmpegPath,
                                !.before = files]
     IN  cv' = IF AlreadyMp4(inputPath)
                 THEN [call EXCEPT !.pc = "done",
                                   !.result = Result(inputPath, FALSE, "none")]
               ELSE IF NoFfmpeg(ffmpegPath)
                 THEN [call EXCEPT !.pc = "done",
                                   !.result = Result(inputPath, FALSE, "original")]
               ELSE [call EXCEPT !.pc = "remux", !.outputPath = OutputPathOf(inputPath)]
  /\ UNCHANGED <<files, dirs, now, last, db, calls>>

\* one try/catch block of convertToMp4 with its external process
Stage(method, run) ==
  LET t == TryBlock(files, cv.inputPath, cv.outputPath, run, method)
      c == CatchBlock(t, cv.outputPath)
      log == Append(cv.spawned, [method |-> method, exit |-> run.exit, seen |-> t.seen])
      next == NextStage(method)
  IN  /\ files' = c.files
      /\ cv' = IF c.thrown
                 THEN [cv EXCEPT !.pc = "done", !.spawned = log, !.rejected = TRUE]
               ELSE IF c.success
                 THEN [cv EXCEPT !.pc = "done", !.spawned = log,
                                 !.result = Result(cv.outputPath, TRUE, method)]
               ELSE IF next = "done"
                 THEN [cv EXCEPT !.pc = "done", !.spawned = log,
                                 !.result = Result(cv.inputPath, FALSE, "original")]
               ELSE [cv EXCEPT !.pc = next, !.spawned = log]
      /\ UNCHANGED <<dirs, now, last, db, calls>>

Remux(run) ==
  /\ cv.pc = "remux"
  /\ run \in FfmpegRuns(cv.inputPath \in DOMAIN files)
  /\ Stage("remux", run)

Transcode(run) ==
  /\ cv.pc = "transcode"
  /\ run \in FfmpegRuns(cv.inputPath \in DOMAIN files)
  /\ Stage("transcode", run)

AllRuns == FfmpegRuns(TRUE)

\* the caller has the result; the next call may start
Return ==
  /\ cv.pc = "done"
  /\ cv' = CvIdle
  /\ UNCHANGED <<files, dirs, now, last, db, calls>>

\* downloadVideo leaves a file in the temporary directory
downloadVideo(p) ==
  /\ cv.pc = "idle"
  /\ ~(p \in DOMAIN files)
  /\ files' = WriteFile(files, p, Downloaded(p))
  /\ UNCHANGED <<dirs, now, last, cv, db, calls>>

\* cleanupFile(filePath): unlink, errors ignored
cleanupFile(filePath) ==
  /\ cv.pc = "idle"
  /\ filePath \in DOMAIN files
  /\ files' = UnlinkQuietly(files, filePath)
  /\ UNCHANGED <<dirs, now, last, cv, db, calls>>

InitConvert ==
  /\ files = [p \in {} |-> F_empty]
  /\ dirs = DirChain(VIDEO_TEMP_DIR)
  /\ now = 9
  /\ last = NoOp
  /\ cv = CvIdle
  /\ db = DbInit
  /\ calls = NoCalls

NextConvert ==
  \/ \E p \in InputPaths : downloadVideo(p)
  \/ \E p \in InputPaths, f \in FfmpegPaths : convertToMp4(p, f)
  \/ \E run \in AllRuns : Remux(run)
  \/ \E run \in AllRuns : Transcode(run)
  \/ \E p \in DOMAIN files : cleanupFile(p)
  \/ Return

SpecConvert == InitConvert /\ [][NextConvert]_vars

(***************************************************************************)
(* Properties of the store                                                 *)
(***************************************************************************)
ImageSaveOps == {"saveImageBytes", "saveStepImageBytes"}

\* a step of the image save named op
ImageSaveStep(op, b, r) ==
  IF op = "saveImageBytes" THEN saveImageBytes(b, r) ELSE saveStepImageBytes(b, r)

\* C1: when a successful saveImageBytes (or saveStepImageBytes) is followed
\* by a second successful one for the same recipe whose normalised bytes are
\* the same, the second call writes nothing, leaves the files as they are and
\* returns the URL the first returned.
C1_SecondSaveWritesNothing ==
  [][( /\ last.op \in ImageSaveOps /\ last.res = "ok"
       /\ last'.op = last.op /\ last'.res = "ok"
       /\ last'.recipeId = last.recipeId /\ last'.norm = last.norm
       /\ \E b \in ImageBufs : ImageSaveStep(last.op, b, last.recipeId) )
     => ( /\ ~last'.wrote
          /\ files' = files
          /\ last'.url = last.url )]_vars

\* a save that found its file on disk, written by an earlier save
C1_Witness ==
  /\ last.op \in ImageSaveOps
  /\ last.res = "ok"
  /\ ~last.wrote
  /\ last.path \in DOMAIN files
  /\ files[last.path].id = last.norm

SaveOps == {"saveImageBytes", "saveStepImageBytes", "saveVideoBytes", "saveVideoFile"}

\* the disk path the delete operation matching the save op derives from url,
\* <<>> when that operation rejects the URL
DeleteTarget(op, url) ==
  IF op = "saveImageBytes"
    THEN LET m == MatchRecipeImageUrl(url)
         IN  IF CheckImageUrl(m) = "ok"
               THEN Join(Join(RECIPES_BASE_DIR, m.recipeId), m.filename) ELSE <<>>
  ELSE IF op = "saveStepImageBytes"
    THEN LET m == MatchStepImageUrl(url)
         IN  IF CheckImageUrl(m) = "ok"
               THEN Join(Join(Join(RECIPES_BASE_DIR, m.recipeId), S_steps), m.filename)
               ELSE <<>>
  ELSE LET m == MatchVideoUrl(url)
       IN  IF CheckVideoUrl(m) = "ok"
             THEN Join(Join(RECIPES_BASE_DIR, m.recipeId), m.filename) ELSE <<>>

\* C2: after every successful save for a recipe id of the 36-character form,
\* the matching delete operation accepts the returned URL and derives from it
\* the path of the file the save wrote, and that file exists.
C2_SavedUrlRoundTrips ==
  (last.op \in SaveOps /\ last.res = "ok" /\ IsRecipeId(last.recipeId))
    => /\ DeleteTarget(last.op, last.url) = last.path
       /\ last.path \in DOMAIN files

\* C3: a saveImageBytes or saveStepImageBytes of bytes without a recognisable
\* image magic number rejects as an unsupported format and leaves the uploads
\* tree as it was: no file and no directory is created.
C3_RejectedSaveWritesNothing ==
  [][( /\ last'.op \in ImageSaveOps /\ last'.sniff = Undefined
       /\ \E b \in ImageBufs, r \in RecipeIds :
            extFromBuffer(b) = Undefined /\ ImageSaveStep(last'.op, b, r) )
     => ( /\ last'.res \in {"not_image", "no_format"}
          /\ files' = files
          /\ dirs' = dirs )]_vars

\* C4: in downloadImage, bytes with a recognisable image signature are
\* normalised as the sniffed format, so the HEIC stage runs exactly for
\* sniffed HEIC, whatever Content-Type and URL extension say.
C4_SniffDrivesNormalisation ==
  (last.op = "downloadImage" /\ last.sniff # Undefined /\ last.sourceExt # <<>>)
    => /\ last.sourceExt = last.sniff
       /\ last.res \in {"ok", "convert_failed"} => (last.heic <=> last.sniff = E_heic)

(***************************************************************************)
(* Properties of convertToMp4                                              *)
(***************************************************************************)
\* the attempt logged at position i counted as a success
Succeeded(i) == cv.spawned[i].exit = "zero" /\ cv.spawned[i].seen = "data"

\* the attempt logged at position i failed: non-zero exit or spawn error
Failed(i) == cv.spawned[i].exit \in {"nonzero", "error"}

\* the input file is where and what it was when the call started
OriginalKept ==
  cv.inputPath \in DOMAIN cv.before
    => cv.inputPath \in DOMAIN files /\ files[cv.inputPath] = cv.before[cv.inputPath]

\* C5: a call spawns at most two processes, remux first and transcode second;
\* transcode is spawned only after a remux that did not succeed; a call whose
\* remux failed does not return before transcode was attempted; and when both
\* failed the original file is still at its path and the result is
\* {filePath: input, converted: false, method: "original"}.
C5_RemuxThenTranscode ==
  /\ Len(cv.spawned) <= 2
  /\ \A i \in DOMAIN cv.spawned :
       cv.spawned[i].method = IF i = 1 THEN "remux" ELSE "transcode"
  /\ Len(cv.spawned) = 2 => ~Succeeded(1)
  /\ (cv.pc = "done" /\ Len(cv.spawned) >= 1 /\ Failed(1)) => Len(cv.spawned) = 2
  /\ (cv.pc = "done" /\ Len(cv.spawned) = 2 /\ Failed(1) /\ Failed(2))
       => /\ cv.result = Result(cv.inputPath, FALSE, "original")
          /\ OriginalKept

\* both processes failed for a file that was there
C5_Witness ==
  /\ cv.pc = "done"
  /\ Len(cv.spawned) = 2
  /\ cv.spawned[1].exit = "nonzero"
  /\ cv.spawned[2].exit = "error"
  /\ cv.inputPath \in DOMAIN cv.before
  /\ cv.result.method = "original"

\* C6: a call that returns method "original" after having attempted
\* conversion leaves no file at the .mp4 output path.
C6_NoOutputLeftBehind ==
  (cv.pc = "done" /\ cv.result.method = "original" /\ cv.spawned # <<>>)
    => ~(cv.outputPath \in DOMAIN files)

C8_NeverRejects ==
  /\ ~cv.rejected
  /\ cv.pc = "done" =>
       /\ cv.result.method \in {"none", "remux", "transcode", "original"}
       /\ (cv.spawned # <<>> /\ \A i \in DOMAIN cv.spawned : ~Succeeded(i))
            => cv.result = Result(cv.inputPath, FALSE, "original")

\* a call that resolved although the spawn failed and the output was missing
C8_Witness ==
  /\ cv.pc = "done"
  /\ Len(cv.spawned) = 2
  /\ cv.spawned[1].exit = "error"
  /\ cv.spawned[2] = [method |-> "transcode", exit |-> "zero", seen |-> "absent"]
  /\ cv.result.method = "original"

\* C9: a call whose input has the extension .mp4 in any letter case returns
\* {filePath: input, converted: false, method: "none"}, spawns nothing and
\* leaves every file as it was, with or without an ffmpeg path.
C9_Mp4IsNoOp ==
  (cv.pc # "idle" /\ ToLower(Extname(cv.inputPath)) = E_mp4)
    => /\ cv.pc = "done"
       /\ cv.result = Result(cv.inputPath, FALSE, "none")
       /\ cv.spawned = <<>>
       /\ files = cv.before

\* an upper-case .MP4 that is on disk, with ffmpeg available
C9_Witness ==
  /\ cv.pc = "done"
  /\ Extname(cv.inputPath) = E_MP4
  /\ cv.ffmpegPath = FFMPEG
  /\ cv.inputPath \in DOMAIN files
  /\ cv.result.method = "none"

\* C10: a call for an input that is not .mp4, without an ffmpeg path, returns
\* {filePath: input, converted: false, method: "original"}, spawns nothing
\* and creates, changes and deletes no file.
C10_NoFfmpegKeepsOriginal ==
  (cv.pc # "idle" /\ ToLower(Extname(cv.inputPath)) # E_mp4 /\ cv.ffmpegPath = Undefined)
    => /\ cv.pc = "done"
       /\ cv.result = Result(cv.inputPath, FALSE, "original")
       /\ cv.spawned = <<>>
       /\ files = cv.before

\* a .webm on disk, no ffmpeg
C10_Witness ==
  /\ cv.pc = "done"
  /\ cv.inputPath = T_webm
  /\ cv.ffmpegPath = Undefined
  /\ cv.inputPath \in DOMAIN files
  /\ cv.result.method = "original"

(***************************************************************************)
(* The delete operations over URLs of every shape                          *)
(***************************************************************************)
ID_upper == <<"5", "5", "0", "E", "8", "4", "0", "0", "-", "E", "2", "9", "B", "-", "4", "1", "D", "4", "-", "A", "7", "1", "6", "-", "4", "4", "6", "6", "5", "5", "4", "4", "0", "0", "0", "0">>

S_images == <<"i", "m", "a", "g", "e", "s">>

S_gallery == <<"g", "a", "l", "l", "e", "r", "y">>

\* the name saveImageBytes gives the JPEG of picture 1
N_hash == uuidFromBytes(JpegOf(1)) \o E_jpg

N_video == VideoFileName(9, E_mp4)

N_old == <<"o", "l", "d", ".", "j", "p", "g">>

N_dots == <<"a", ".", "b", ".", "j", "p", "g">>

N_up == <<".", ".">>

\* the first path segment after /recipes/
UrlIds == {ID_A, ID_upper, ID_short, S_images}

\* what stands between the id and the filename
UrlMiddles == {<<>>, S_steps \o <<"/">>, S_gallery \o <<"/">>, N_up \o <<"/">>}

UrlNames == {N_hash, N_video, N_old, N_dots, N_up}

U_avatar == <<"/", "a", "v", "a", "t", "a", "r", "s", "/", "u", "s", "e", "r", ".", "j", "p", "g">>

U_upper == <<"/", "R", "E", "C", "I", "P", "E", "S", "/">> \o ID_A \o <<"/">> \o N_hash

\* the url argument of the delete operations
AnyUrls ==
  { P_recipes \o i \o <<"/">> \o m \o n : i \in UrlIds, m \in UrlMiddles, n \in UrlNames }
    \cup {U_avatar, U_upper, <<>>}

\* a recipe with an image, a step image and a video, next to files left
\* from the flat and the gallery layout
InitDelete ==
  /\ files = [p \in { Join(Join(RECIPES_BASE_DIR, ID_A), N_hash),
                      Join(Join(Join(RECIPES_BASE_DIR, ID_A), S_steps), N_hash),
                      Join(Join(RECIPES_BASE_DIR, ID_A), N_video),
                      Join(Join(Join(RECIPES_BASE_DIR, ID_A), S_gallery), N_old),
                      Join(Join(RECIPES_BASE_DIR, S_images), N_old),
                      Join(RECIPES_BASE_DIR, N_old) }
                |-> [id |-> 1, len |-> 1025]]
  /\ dirs = DirChain(Join(Join(RECIPES_BASE_DIR, ID_A), S_steps))
              \cup DirChain(Join(Join(RECIPES_BASE_DIR, ID_A), S_gallery))
              \cup DirChain(Join(RECIPES_BASE_DIR, S_images))
  /\ now = 9
  /\ last = NoOp
  /\ cv = CvIdle
  /\ db = DbInit
  /\ calls = NoCalls

NextDelete ==
  \/ \E u \in AnyUrls : deleteImageByUrl(u)
  \/ \E u \in AnyUrls : deleteStepImageByUrl(u)
  \/ \E u \in AnyUrls : deleteVideoByUrl(u)

SpecDelete == InitDelete /\ [][NextDelete]_vars

DeleteOps == {"deleteImageByUrl", "deleteStepImageByUrl", "deleteVideoByUrl"}

\* the errors thrown before a path is built
UrlRejections == {"invalid_url", "invalid_recipe_id", "invalid_filename"}

HexDashChars == {"0", "1", "2", "3", "4", "5", "6", "7", "8", "9", "-",
                 "a", "b", "c", "d", "e", "f", "A", "B", "C", "D", "E", "F"}

\* name.ext: one dot, letters, digits, _ and - before it, letters and digits
\* after it
IsNameDotExt(f) ==
  \E d \in 2..(Len(f) - 1) :
    /\ f[d] = "."
    /\ \A i \in 1..(d - 1) : f[i] \in AlnumSet \cup {"_", "-"}
    /\ \A i \in (d + 1)..Len(f) : f[i] \in AlnumSet

\* C11: a delete that gets as far as the file system was given a recipe id of
\* exactly 36 hex-or-dash characters and a filename name.ext; the path it
\* unlinks is that file directly inside uploads/recipes/{recipeId} (inside
\* its steps directory for deleteStepImageByUrl) and no other file goes;
\* every other URL is rejected with no path built and no file touched.
C11_DeleteStaysInRecipeDir ==
  [][last'.op \in DeleteOps =>
       IF last'.res \in UrlRejections
         THEN last'.path = <<>> /\ files' = files
         ELSE LET id == last'.recipeId
                  f == Basename(last'.path)
                  dir == Join(RECIPES_BASE_DIR, id)
              IN  /\ Len(id) = 36
                  /\ \A i \in 1..36 : id[i] \in HexDashChars
                  /\ IsNameDotExt(f)
                  /\ SubSeq(last'.url, Len(P_recipes) + 1, Len(P_recipes) + 37) = id \o <<"/">>
                  /\ EndsWith(last'.url, <<"/">> \o f)
                  /\ last'.path = Join(IF last'.op = "deleteStepImageByUrl"
                                         THEN Join(dir, S_steps) ELSE dir, f)
                  /\ DOMAIN files' \subseteq DOMAIN files
                  /\ DOMAIN files \ DOMAIN files' \subseteq {last'.path}
                  /\ \A p \in DOMAIN files' : files'[p] = files[p]]_vars

\* a step image deleted through its URL
C11_Witness ==
  /\ last.op = "deleteStepImageByUrl"
  /\ last.res = "ok"
  /\ last.path = Join(Join(Join(RECIPES_BASE_DIR, ID_A), S_steps), N_hash)
  /\ ~(last.path \in DOMAIN files)

\* /recipes/images/{filename} or /recipes/{id}/gallery/{filename}
IsLegacyUrl(url) ==
  \/ /\ StartsWith(url, P_recipes \o S_images \o <<"/">>)
     /\ IsSegment(From(url, Len(P_recipes) + Len(S_images) + 1))
  \/ \E i \in UrlIds \ {S_images} :
       LET p == P_recipes \o i \o <<"/">> \o S_gallery \o <<"/">>
       IN  StartsWith(url, p) /\ IsSegment(From(url, Len(p)))

\* C12: deleteImageByUrl, deleteStepImageByUrl and deleteVideoByUrl reject
\* every URL of the shapes /recipes/images/{filename} and
\* /recipes/{id}/gallery/{filename} as invalid and delete nothing for it.
C12_LegacyUrlsRejected ==
  [][(last'.op \in DeleteOps /\ IsLegacyUrl(last'.url))
       => (last'.res \in UrlRejections /\ files' = files)]_vars

\* a gallery URL whose file is on disk, refused
C12_Witness ==
  /\ last.op = "deleteImageByUrl"
  /\ last.url = P_recipes \o ID_A \o <<"/">> \o S_gallery \o <<"/">> \o N_old
  /\ last.res \in UrlRejections
  /\ (UPLOADS_DIR \o last.url) \in DOMAIN files

(***************************************************************************)
(* The saves at and around the size limits                                 *)
(***************************************************************************)
\* a video_config row whose maxVideoFileSize is 5000 bytes
SmallVideoConfig == <<[maxVideoFileSize |-> 5000]>>

V_over == [id |-> 37, bytes |-> H_isom, len |-> 5001, pix |-> 0]

SizedImages == {B_jpgA, B_webpB, B_huge}

SizedVideos == {V_isom, V_over, V_qt, V_huge}

SizedPaths == {T_webm, T_mp4, T_MOV, T_big}

\* downloaded videos of 5000, 5001, MAX_VIDEO_FILE_SIZE and
\* MAX_VIDEO_FILE_SIZE + 1 bytes, with or without a video_config row
InitSize ==
  /\ files = (T_webm :> FileOf(V_webm)) @@ (T_mp4 :> FileOf(V_over))
             @@ (T_MOV :> FileOf(V_qt)) @@ (T_big :> FileOf(V_huge))
  /\ dirs = DirChain(VIDEO_TEMP_DIR)
  /\ now = 9
  /\ last = NoOp
  /\ cv = CvIdle
  /\ db \in {DbInit, [DbInit EXCEPT !.videoConfig = SmallVideoConfig]}
  /\ calls = NoCalls

NextSize ==
  \/ \E b \in SizedImages : saveImageBytes(b, ID_A)
  \/ \E v \in SizedVideos : saveVideoBytes(v, ID_A, Undefined)
  \/ \E s \in SizedPaths : saveVideoFile(s, ID_A)
  \/ \E u \in DeleteUrls : deleteImageByUrl(u)
  \/ \E u \in DeleteUrls : deleteVideoByUrl(u)
  \/ Tick

SpecSize == InitSize /\ [][NextSize]_vars

\* the step is a save that ended with the too-large error
TooLargeStep == last'.res = "too_large"

\* C13: saveImageBytes ends with the too-large error exactly for a buffer
\* longer than MAX_IMAGE_FILE_SIZE, saveVideoBytes and saveVideoFile exactly
\* for a payload longer than the configured maximum video file size, so a
\* payload of exactly the maximum is not refused for its size; a refused
\* payload leaves every file as it was.
C13_SizeLimits ==
  [][/\ \A b \in SizedImages :
          saveImageBytes(b, ID_A)
            => /\ TooLargeStep <=> b.len > MAX_IMAGE_FILE_SIZE
               /\ TooLargeStep => files' = files
     /\ \A v \in SizedVideos :
          saveVideoBytes(v, ID_A, Undefined)
            => /\ TooLargeStep <=> v.len > getMaxVideoFileSize
               /\ TooLargeStep => files' = files
     /\ \A s \in SizedPaths :
          saveVideoFile(s, ID_A)
            => /\ TooLargeStep <=> files[s].len > getMaxVideoFileSize
               /\ TooLargeStep => files' = files]_vars

\* a video of exactly the configured maximum, copied into the recipe
C13_Witness ==
  /\ last.op = "saveVideoFile"
  /\ last.res = "ok"
  /\ db.videoConfig = SmallVideoConfig
  /\ last.path \in DOMAIN files
  /\ files[last.path].len = 5000

(***************************************************************************)
(* The image sniffer over buffers of every leading twelve bytes            *)
(***************************************************************************)
\* bytes 0..3
SniffHeads == {<<255, 216, 255, 224>>, <<255, 216, 0, 0>>, <<137, 80, 78, 71>>,
               <<82, 73, 70, 70>>, <<0, 0, 0, 28>>}

\* bytes 4..7: "ftyp", the second half of the PNG signature, a RIFF length
SniffMids == {<<102, 116, 121, 112>>, <<13, 10, 26, 10>>, <<36, 0, 0, 0>>}

\* bytes 8..11: WEBP, avif, heic, mif1, msf1, heix, hevc, isom, avis, zeros
\* and the bytes of avif and of heic with the high bit of some bytes set
SniffBrands == {<<87, 69, 66, 80>>, A_avif, A_heic, A_mif1, A_msf1,
                <<104, 101, 105, 120>>, <<104, 101, 118, 99>>, <<105, 115, 111, 109>>,
                <<97, 118, 105, 115>>, <<0, 0, 0, 0>>,
                <<225, 246, 233, 230>>, <<104, 229, 105, 99>>}

SniffLengths == {8, 12, 99, 100, 2048}

SniffBufs ==
  { [id |-> 0, bytes |-> h \o m \o b, len |-> n, pix |-> 0] :
      h \in SniffHeads, m \in SniffMids, b \in SniffBrands, n \in SniffLengths }

\* a call of extFromBuffer and what it returned
extFromBufferCall(buf) ==
  /\ last' = [NoOp EXCEPT !.op = "extFromBuffer", !.bytes = buf,
                          !.sniff = extFromBuffer(buf)]
  /\ UNCHANGED <<files, dirs, now, cv, db, calls>>

\* a call of isValidImageBuffer and what it returned
isValidImageBufferCall(buffer) ==
  /\ last' = [NoOp EXCEPT !.op = "isValidImageBuffer", !.bytes = buffer,
                          !.sniff = extFromBuffer(buffer),
                          !.res = IF isValidImageBuffer(buffer) THEN "valid" ELSE "invalid"]
  /\ UNCHANGED <<files, dirs, now, cv, db, calls>>

InitSniff ==
  /\ files = [p \in {} |-> F_empty]
  /\ dirs = {}
  /\ now = 9
  /\ last = NoOp
  /\ cv = CvIdle
  /\ db = DbInit
  /\ calls = NoCalls

NextSniff ==
  \/ \E buf \in SniffBufs : extFromBufferCall(buf)
  \/ \E buf \in SniffBufs : isValidImageBufferCall(buf)

SpecSniff == InitSniff /\ [][NextSniff]_vars

\* the format the signatures give for twelve leading bytes, in their order
SignatureOf(b) ==
  IF SubSeq(b, 1, 3) = <<255, 216, 255>> THEN E_jpg
  ELSE IF SubSeq(b, 1, 8) = <<137, 80, 78, 71, 13, 10, 26, 10>> THEN E_png
  ELSE IF SubSeq(b, 1, 4) = <<82, 73, 70, 70>> /\ SubSeq(b, 9, 12) = <<87, 69, 66, 80>>
    THEN E_webp
  ELSE IF SubSeq(b, 5, 8) = <<102, 116, 121, 112>>
    THEN IF SubSeq(b, 9, 12) = A_avif THEN E_avif
         ELSE IF \/ SubSeq(b, 9, 12) \in {A_heic, A_mif1, A_msf1}
                 \/ SubSeq(b, 9, 11) \in {A_hei, A_hev}
           THEN E_heic
         ELSE Undefined
  ELSE Undefined

\* C14: for a buffer of at least twelve bytes extFromBuffer returns the
\* format of the first signature that matches, JPEG, PNG, WebP, then the ftyp
\* brands avif (AVIF) and heic, mif1, msf1, hei*, hev* (HEIC), and no format
\* for every other buffer; isValidImageBuffer is false for every buffer
\* shorter than 100 bytes.
C14_SnifferClassifies ==
  /\ (last.op \in {"extFromBuffer", "isValidImageBuffer"} /\ last.bytes.len >= 12)
       => last.sniff = SignatureOf(last.bytes.bytes)
  /\ (last.op = "isValidImageBuffer" /\ last.bytes.len < 100) => last.res = "invalid"

(***************************************************************************)
(* Two saveImageBytes calls in flight: every await is a step               *)
(***************************************************************************)
Callers == {1, 2}

\* B_jpgA and B_pngA are the same picture and normalise to the same JPEG
RaceBufs == {B_jpgA, B_pngA, B_heicB, B_junk}

IdleCall == [pc |-> "idle", res |-> "none", url |-> <<>>, path |-> <<>>, norm |-> 0,
             wrote |-> FALSE]

\* writeFile in two write(2) calls
HalfOf(content) == content.len \div 2

\* open(fp, "wx"): fails when the file is there
OpenForWrite_exclusive(fs, fp) ==
  IF fp \in DOMAIN fs THEN [ok |-> FALSE, fs |-> fs]
  ELSE [ok |-> TRUE, fs |-> WriteFile(fs, fp, F_empty)]

\* writeFile opens with flag "w": the file is created or truncated
OpenForWrite(fs, fp) == [ok |-> TRUE, fs |-> WriteFile(fs, fp, F_empty)]

\* the file after the k-th half of content was written at its offset: the
\* whole content once both halves are there, else a file that is not it
WriteChunk(fs, fp, content, k) ==
  LET cur == IF fp \in DOMAIN fs THEN fs[fp] ELSE F_empty
      has1 == k = 1 \/ cur = content \/ cur.len = HalfOf(content)
      has2 == k = 2 \/ cur.len = content.len
  IN  WriteFile(fs, fp,
        IF has1 /\ has2 THEN content
        ELSE IF has2 THEN [id |-> 0, len |-> content.len]
        ELSE [id |-> 0, len |-> HalfOf(content)])

\* saveImageBytes up to the existence check: ensureDir, the validations and
\* the conversion, none of which reads or writes a file of the store
BeginSave(c, bytes, recipeId) ==
  /\ calls[c].pc = "idle"
  /\ LET r == saveImageBytesCore(bytes, Join(RECIPES_BASE_DIR, recipeId),
                                 P_recipes \o recipeId)
     IN  /\ dirs' = r.dirs
         /\ calls' = [calls EXCEPT ![c] =
              IF r.res = "ok"
                THEN [pc |-> "access", res |-> "none", url |-> r.url, path |-> r.path,
                      norm |-> r.norm, wrote |-> FALSE]
                ELSE [IdleCall EXCEPT !.pc = "done", !.res = r.res]]
  /\ UNCHANGED <<files, now, last, cv, db>>

\* await fileExists(filePath)
AccessStep(c) ==
  /\ calls[c].pc = "access"
  /\ calls' = [calls EXCEPT ![c].pc = IF fileExists(calls[c].path) THEN "return" ELSE "open"]
  /\ UNCHANGED <<files, dirs, now, last, cv, db>>

\* fs.writeFile: open
OpenStep(c) ==
  /\ calls[c].pc = "open"
  /\ LET o == OpenForWrite(files, calls[c].path)
     IN  /\ files' = o.fs
         /\ calls' = [calls EXCEPT ![c] =
              IF o.ok THEN [@ EXCEPT !.pc = "write1", !.wrote = TRUE]
              ELSE [@ EXCEPT !.pc = "done", !.res = "write_failed"]]
  /\ UNCHANGED <<dirs, now, last, cv, db>>

\* fs.writeFile: the k-th write
WriteStep(c, k) ==
  /\ calls[c].pc = IF k = 1 THEN "write1" ELSE "write2"
  /\ files' = WriteChunk(files, calls[c].path, FileOf(JpegOf(calls[c].norm)), k)
  /\ calls' = [calls EXCEPT ![c].pc = IF k = 1 THEN "write2" ELSE "return"]
  /\ UNCHANGED <<dirs, now, last, cv, db>>

\* return `${options.webPrefix}/${fileName}`
ReturnStep(c) ==
  /\ calls[c].pc = "return"
  /\ calls' = [calls EXCEPT ![c].pc = "done", ![c].res = "ok"]
  /\ UNCHANGED <<files, dirs, now, last, cv, db>>

InitRace ==
  /\ files = [p \in {} |-> F_empty]
  /\ dirs = DirChain(UPLOADS_DIR)
  /\ now = 9
  /\ last = NoOp
  /\ cv = CvIdle
  /\ db = DbInit
  /\ calls = [c \in Callers |-> IdleCall]

NextRace ==
  \/ \E c \in Callers, b \in RaceBufs : BeginSave(c, b, ID_A)
  \/ \E c \in Callers : AccessStep(c)
  \/ \E c \in Callers : OpenStep(c)
  \/ \E c \in Callers, k \in {1, 2} : WriteStep(c, k)
  \/ \E c \in Callers : ReturnStep(c)

SpecRace == InitRace /\ [][NextRace]_vars

\* C15: when two saveImageBytes calls for the same recipe were given bytes
\* that normalise to the same JPEG, then under every interleaving of their
\* steps, once both are over both have returned the same URL and the file at
\* its path holds exactly the normalised bytes.
C15_ConcurrentSavesAgree ==
  (/\ calls[1].pc = "done" /\ calls[2].pc = "done"
   /\ calls[1].norm # 0 /\ calls[1].norm = calls[2].norm)
    => /\ calls[1].res = "ok" /\ calls[2].res = "ok"
       /\ calls[1].url = calls[2].url
       /\ calls[1].path \in DOMAIN files
       /\ files[calls[1].path] = [id |-> calls[1].norm, len |-> 1024 + calls[1].norm]

\* both calls found no file and both wrote it
C15_Witness ==
  /\ calls[1].pc = "done" /\ calls[2].pc = "done"
  /\ calls[1].norm = 1 /\ calls[2].norm = 1
  /\ calls[1].wrote /\ calls[2].wrote
  /\ calls[1].url = P_recipes \o ID_A \o <<"/">> \o N_hash

(***************************************************************************)
(* Gallery videos: the router procedures over the store and the database   *)
(***************************************************************************)
MAX_RECIPE_VIDEOS == 2

ID_B == <<"a", "1", "b", "2", "c", "3", "d", "4", "-", "e", "5", "f", "6", "-", "7", "8", "9", "0", "-", "a", "b", "c", "d", "-", "e", "f", "1", "2", "3", "4", "5", "6", "7", "8", "9", "0">>

\* "Only MP4, WebM, and MOV videos are allowed"
ALLOWED_VIDEO_MIME_SET == {"video/mp4", "video/webm", "video/quicktime"}

\* the File of the form data: its name, its type and its content
UploadedFiles ==
  {[name |-> N_clip \o E_mp4, type |-> "video/mp4", bytes |-> V_isom],
   [name |-> N_clip \o E_MOV, type |-> "video/quicktime", bytes |-> V_junk],
   [name |-> N_clip, type |-> "video/webm", bytes |-> V_junk],
   [name |-> N_clip \o E_mp4, type |-> "video/mp4", bytes |-> V_huge],
   [name |-> N_clip \o E_mp4, type |-> "text/plain", bytes |-> V_isom]}

\* a row of the recipes table
RecipeRow(id, userId, url) == [id |-> id, userId |-> userId, url |-> url]

\* select count(*) from recipe_videos where recipe_id = recipeId
countRecipeVideos(recipeId) ==
  Cardinality({ v \in db.recipeVideos : v.recipeId = recipeId })

\* select user_id from recipes where id = recipeId limit 1
getRecipeOwnerId(recipeId) ==
  IF \E r \in db.recipes : r.id = recipeId
    THEN <<(CHOOSE r \in db.recipes : r.id = recipeId).userId>>
    ELSE Null

\* the id the database gives a new row: one no row of the table has
NewVideoId == CHOOSE n \in 1..(Cardinality(db.recipeVideos) + 1) :
                \A v \in db.recipeVideos : v.id # n

\* insert into recipe_videos
addRecipeVideos(recipeId, video) ==
  [db EXCEPT !.recipeVideos = @ \cup {[id |-> NewVideoId, recipeId |-> recipeId, video |-> video]}]

\* select ... from recipe_videos where id = videoId limit 1
getRecipeVideoById(videoId) ==
  IF \E v \in db.recipeVideos : v.id = videoId
    THEN <<CHOOSE v \in db.recipeVideos : v.id = videoId>>
    ELSE Null

\* delete from recipe_videos where id = videoId
deleteRecipeVideoById(videoId) ==
  [db EXCEPT !.recipeVideos = { v \in @ : v.id # videoId }]

\* what the form data is refused for, "ok" when it is not
extractAndValidateVideo(file) ==
  IF file = Null THEN "No video file provided"
  ELSE IF ~(file[1].type \in ALLOWED_VIDEO_MIME_SET) THEN "Invalid file type"
  ELSE IF file[1].bytes.len > getMaxVideoFileSize THEN "Video too large"
  ELSE "ok"

\* what a procedure leaves in last
Reply(op, recipeId, videoId, res, url, fileRes, dbRes) ==
  [op |-> op, recipeId |-> recipeId, videoId |-> videoId, res |-> res, url |-> url,
   fileRes |-> fileRes, dbRes |-> dbRes]

\* uploadGalleryVideo: dbFails tells whether the insert throws
uploadGalleryVideo(recipeId, file, dbFails) ==
  LET op == "uploadGalleryVideo"
      currentCount == countRecipeVideos(recipeId)
      validation == extractAndValidateVideo(file)
      named == ToLower(Extname(file[1].name))
      ext == IF named = <<>> THEN E_mp4 ELSE named
      saved == saveVideoBytesCore(file[1].bytes, recipeId, ext)
      refused(why) == /\ last' = Reply(op, recipeId, 0, why, <<>>, "none", "none")
                      /\ UNCHANGED <<files, dirs, db>>
  IN  /\ IF recipeId = <<>> THEN refused("Recipe ID is required")
         ELSE IF currentCount >= MAX_RECIPE_VIDEOS THEN refused("Maximum videos allowed")
         ELSE IF validation # "ok" THEN refused(validation)
         ELSE IF saved.res # "ok"
           THEN /\ last' = Reply(op, recipeId, 0, "failed", <<>>, saved.res, "none")
                /\ dirs' = saved.dirs
                /\ UNCHANGED <<files, db>>
         ELSE IF getRecipeOwnerId(recipeId) = Null
           THEN /\ last' = Reply(op, recipeId, 0, "success", saved.url, "ok", "none")
                /\ dirs' = saved.dirs /\ files' = saved.files
                /\ UNCHANGED db
         ELSE IF dbFails
           THEN /\ last' = Reply(op, recipeId, 0, "failed", <<>>, "ok", "failed")
                /\ dirs' = saved.dirs /\ files' = saved.files
                /\ UNCHANGED db
         ELSE /\ last' = Reply(op, recipeId, NewVideoId, "success", saved.url, "ok", "ok")
              /\ dirs' = saved.dirs /\ files' = saved.files
              /\ db' = addRecipeVideos(recipeId, saved.url)
      /\ Cardinality(StoredIn(files')) <= MaxStored
      /\ UNCHANGED <<now, cv, calls>>

\* the inner try/catch around deleteVideoByUrl written without the catch
FsErrorIsFatal_propagates(fileRes) == fileRes # "ok"

\* the inner try/catch: an error of deleteVideoByUrl is logged, not thrown on
FsErrorIsFatal(fileRes) == FALSE

\* deleteVideoByUrl with an unlink that may fail on a file that is there
deleteVideoByUrlMayFail(url, unlinkFails) ==
  LET r == deleteVideoByUrlCore(url)
  IN  IF r.res = "ok" /\ unlinkFails
        THEN [r EXCEPT !.res = "unlink_failed", !.files = files]
        ELSE r

\* deleteGalleryVideo: unlinkFails and dbFails tell which calls throw
deleteGalleryVideo(videoId, unlinkFails, dbFails) ==
  LET op == "deleteGalleryVideo"
      videoRecord == getRecipeVideoById(videoId)
      del == deleteVideoByUrlMayFail(videoRecord[1].video, unlinkFails)
  IN  /\ IF videoRecord = Null
           THEN /\ last' = Reply(op, <<>>, videoId, "Video not found", <<>>, "none", "none")
                /\ UNCHANGED <<files, db>>
         ELSE IF FsErrorIsFatal(del.res)
           THEN /\ last' = Reply(op, videoRecord[1].recipeId, videoId, "failed",
                                 videoRecord[1].video, del.res, "none")
                /\ UNCHANGED <<files, db>>
         ELSE IF dbFails
           THEN /\ last' = Reply(op, videoRecord[1].recipeId, videoId, "failed",
                                 videoRecord[1].video, del.res, "failed")
                /\ files' = del.files
                /\ UNCHANGED db
         ELSE /\ last' = Reply(op, videoRecord[1].recipeId, videoId, "success",
                               videoRecord[1].video, del.res, "ok")
              /\ files' = del.files
              /\ db' = deleteRecipeVideoById(videoId)
      /\ UNCHANGED <<dirs, now, cv, calls>>

\* the paths at or below dir
Below(paths, dir) == { p \in paths : p = dir \/ StartsWith(p, dir \o <<"/">>) }

\* deleteRecipeImagesDir: fs.access, then fs.rm recursive; every error is
\* logged and swallowed.  What is left of the files and the directories.
deleteRecipeImagesDirCore(fs, ds, recipeId, rmFails) ==
  LET recipeDir == Join(RECIPES_BASE_DIR, recipeId)
      exists == recipeDir \in ds
  IN  IF ~exists \/ rmFails THEN [files |-> fs, dirs |-> ds]
      ELSE [files |-> [p \in DOMAIN fs \ Below(DOMAIN fs, recipeDir) |-> fs[p]],
            dirs |-> ds \ Below(ds, recipeDir)]

\* deleteRecipeById: the recipe row takes its recipe_videos rows with it
deleteRecipeById(id, rmFails, dbFails) ==
  LET rm == deleteRecipeImagesDirCore(files, dirs, id, rmFails)
  IN  /\ files' = rm.files
      /\ dirs' = rm.dirs
      /\ db' = IF dbFails THEN db
               ELSE [db EXCEPT !.recipes = { r \in @ : r.id # id },
                               !.recipeVideos = { v \in @ : v.recipeId # id }]
      /\ last' = Reply("deleteRecipeById", id, 0, IF dbFails THEN "failed" ELSE "success",
                       <<>>, "none", IF dbFails THEN "failed" ELSE "ok")
      /\ UNCHANGED <<now, cv, calls>>

VideoIds == 1..(MAX_RECIPE_VIDEOS + 1)

\* a recipe of user u1 without any media yet
InitGallery ==
  /\ files = [p \in {} |-> F_empty]
  /\ dirs = DirChain(RECIPES_BASE_DIR)
  /\ now = MaxClock - 1
  /\ last = Reply("none", <<>>, 0, "ok", <<>>, "none", "none")
  /\ cv = CvIdle
  /\ db = [DbInit EXCEPT !.recipes = {RecipeRow(ID_A, "u1", <<>>)}]
  /\ calls = NoCalls

NextGallery ==
  \/ \E r \in {ID_A, ID_B, <<>>}, f \in UploadedFiles, dbFails \in BOOLEAN :
       uploadGalleryVideo(r, <<f>>, dbFails)
  \/ \E r \in {ID_A} : uploadGalleryVideo(r, Null, FALSE)
  \/ \E v \in VideoIds, unlinkFails \in BOOLEAN, dbFails \in BOOLEAN :
       deleteGalleryVideo(v, unlinkFails, dbFails)
  \/ \E r \in {ID_A, ID_B}, rmFails \in BOOLEAN, dbFails \in BOOLEAN :
       deleteRecipeById(r, rmFails, dbFails)
  \/ Tick

SpecGallery == InitGallery /\ [][NextGallery]_vars

\* C16: after any sequence of uploadGalleryVideo, deleteGalleryVideo and
\* deleteRecipeById, each of which may fail partway, the video URL of every
\* recipe_videos row names a file that is on disk.
C16_RecordsHaveFiles ==
  \A v \in db.recipeVideos : (UPLOADS_DIR \o v.video) \in DOMAIN files

\* C17: deleteGalleryVideo for an id without a row reports "Video not found"
\* and changes neither a file nor a row; for an id with a row, unless the
\* database delete itself throws, the row is deleted and success is reported,
\* also when deleteVideoByUrl has thrown.
C17_FileErrorDoesNotStopDelete ==
  [][now' = now /\ last'.op = "deleteGalleryVideo" =>
       IF \A v \in db.recipeVideos : v.id # last'.videoId
         THEN last'.res = "Video not found" /\ files' = files /\ db' = db
         ELSE last'.dbRes # "failed" =>
                /\ last'.res = "success"
                /\ \A v \in db'.recipeVideos : v.id # last'.videoId]_vars

\* a row was deleted with success although the file could not be deleted
C17_Witness ==
  /\ last.op = "deleteGalleryVideo"
  /\ last.fileRes \in {"unlink_failed", "invalid_url", "invalid_recipe_id", "invalid_filename"}
  /\ last.res = "success"
  /\ \A v \in db.recipeVideos : v.id # last.videoId

(***************************************************************************)
(* The import workers: an attempt that fails and handleJobFailed           *)
(***************************************************************************)
\* the three queues whose workers have a handleJobFailed
ImportQueues == {"recipe-import", "paste-import", "image-import"}

\* job.opts.attempts ?? 3, where 0 stands for an option that is not set
MaxAttemptsOf(job) == IF job.attempts = 0 THEN 3 ELSE job.attempts

\* an event as emitByPolicy sends it: recipeId is the pending recipe id the
\* event is about, recipe the id of the recipe it carries
Event(event, recipeId, recipe) == [event |-> event, recipeId |-> recipeId, recipe |-> recipe]

\* a handler that emits on every failure
EmitsFailed_always(job) == TRUE

\* the recipe-import and paste-import handlers emit on the final failure
\* only, the image-import handler on every failure
EmitsFailed(job) ==
  job.name = "image-import" \/ job.attemptsMade >= MaxAttemptsOf(job)

\* the try/catch of deleteRecipeImagesDir written without the catch
RmErrorIsThrown_uncaught(rmFails) == rmFails

\* the try/catch of deleteRecipeImagesDir: an error of fs.rm is logged only
RmErrorIsThrown(rmFails) == FALSE

\* a job as the queue holds it: did tells what the last run of the handler
\* did, in order; wrote whether the attempt created the recipe directory;
\* rmFailed whether fs.rm failed in the last run of the handler; emitted the
\* events of the job so far
NewJob(name, recipeId, attempts) ==
  [name |-> name, recipeId |-> recipeId, attempts |-> attempts, attemptsMade |-> 0,
   pc |-> "active", did |-> <<>>, wrote |-> FALSE, rmFailed |-> FALSE, emitted |-> <<>>]

\* the attempt stores an image of the recipe it is importing
AttemptSavesImage(bytes) ==
  LET job == calls[1]
      saved == saveImageBytesCore(bytes, Join(RECIPES_BASE_DIR, job.recipeId),
                                  P_recipes \o job.recipeId)
  IN  /\ job.pc = "active"
      /\ files' = saved.files
      /\ dirs' = saved.dirs
      /\ Cardinality(StoredIn(files')) <= MaxStored
      /\ calls' = [calls EXCEPT ![1].wrote = TRUE]
      /\ UNCHANGED <<now, last, cv, db>>

\* the processor throws: the queue counts the attempt and calls the handler
AttemptThrows ==
  /\ calls[1].pc = "active"
  /\ calls' = [calls EXCEPT ![1].pc = "failed", ![1].attemptsMade = @ + 1,
                            ![1].did = <<>>, ![1].rmFailed = FALSE]
  /\ UNCHANGED <<files, dirs, now, last, cv, db>>

\* the processor returns
AttemptReturns ==
  /\ calls[1].pc = "active"
  /\ calls' = [calls EXCEPT ![1].pc = "completed"]
  /\ UNCHANGED <<files, dirs, now, last, cv, db>>

\* handleJobFailed of a job: rmFails tells whether fs.rm throws
handleJobFailed(rmFails) ==
  LET job == calls[1]
      rm == deleteRecipeImagesDirCore(files, dirs, job.recipeId, rmFails)
      cleaned == Append(job.did, "deleteRecipeImagesDir")
  IN  /\ job.pc = "failed"
      /\ files' = rm.files
      /\ dirs' = rm.dirs
      /\ calls' = IF RmErrorIsThrown(rmFails)
                    THEN [calls EXCEPT ![1].pc = "handler_threw", ![1].did = cleaned,
                                       ![1].rmFailed = TRUE]
                    ELSE [calls EXCEPT ![1].pc = "handled",
                                       ![1].did = IF EmitsFailed(job)
                                                    THEN Append(cleaned, "emit failed")
                                                    ELSE cleaned,
                                       ![1].rmFailed =
                                          rmFails /\ Join(RECIPES_BASE_DIR, job.recipeId) \in dirs,
                                       ![1].emitted =
                                          IF EmitsFailed(job)
                                            THEN Append(@, Event("failed", job.recipeId, <<>>))
                                            ELSE @]
      /\ UNCHANGED <<now, last, cv, db>>

\* the queue starts the next attempt of a job that has attempts left
Retry ==
  /\ calls[1].pc = "handled"
  /\ calls[1].attemptsMade < MaxAttemptsOf(calls[1])
  /\ calls' = [calls EXCEPT ![1].pc = "active", ![1].wrote = FALSE]
  /\ UNCHANGED <<files, dirs, now, last, cv, db>>

InitImport ==
  /\ files = [p \in {} |-> F_empty]
  /\ dirs = DirChain(RECIPES_BASE_DIR)
  /\ now = 9
  /\ last = NoOp
  /\ cv = CvIdle
  /\ db = DbInit
  /\ \E name \in ImportQueues, attempts \in {0, 1, 2} :
       calls = <<NewJob(name, ID_A, attempts)>>

NextImport ==
  \/ \E bytes \in {B_jpgA, B_pngA, B_junk} : AttemptSavesImage(bytes)
  \/ AttemptThrows
  \/ AttemptReturns
  \/ \E rmFails \in BOOLEAN : handleJobFailed(rmFails)
  \/ Retry

SpecImport == InitImport /\ [][NextImport]_vars

\* the handler has run for the job
Handled == calls[1].pc \in {"handled", "handler_threw"}

\* the handler called deleteRecipeImagesDir first and did not throw
CleanupComesFirst ==
  /\ calls[1].pc = "handled"
  /\ Len(calls[1].did) >= 1
  /\ calls[1].did[1] = "deleteRecipeImagesDir"

\* C18 as stated: once the handler has run for a failed attempt, it has called
\* deleteRecipeImagesDir before emitting and without an error thrown, and the
\* directory of the job's recipe is not on disk.
C18_NoDirectoryAfterFailure ==
  Handled => /\ CleanupComesFirst
             /\ ~(Join(RECIPES_BASE_DIR, calls[1].recipeId) \in dirs)

\* C18 amended: the same, except that the directory is gone only when fs.rm
\* did not fail; a failure of fs.rm is logged and the directory stays.
C18_NoDirectoryUnlessRmFails ==
  Handled => /\ CleanupComesFirst
             /\ ~calls[1].rmFailed =>
                  /\ ~(Join(RECIPES_BASE_DIR, calls[1].recipeId) \in dirs)
                  /\ \A p \in DOMAIN files :
                       ~StartsWith(p, Join(RECIPES_BASE_DIR, calls[1].recipeId))

\* the final failure of a job whose attempt had created the directory: the
\* directory was removed and failed was emitted after that
C18_Witness ==
  /\ calls[1].pc = "handled"
  /\ calls[1].wrote
  /\ calls[1].did = <<"deleteRecipeImagesDir", "emit failed">>
  /\ ~(Join(RECIPES_BASE_DIR, calls[1].recipeId) \in dirs)

(***************************************************************************)
(* Concurrent uploads: uploadGalleryVideo, one step for each await          *)
(***************************************************************************)
\* a caller that is not inside uploadGalleryVideo
IdleUpload == [pc |-> "idle", recipeId |-> <<>>, file |-> Null, currentCount |-> 0,
               url |-> <<>>, res |-> "none"]

\* await countRecipeVideos(recipeId)
CountStep(c, recipeId, file) ==
  /\ calls[c].pc = "idle"
  /\ calls' = [calls EXCEPT ![c] = [IdleUpload EXCEPT !.pc = "counted", !.recipeId = recipeId,
                                                      !.file = file,
                                                      !.currentCount = countRecipeVideos(recipeId)]]
  /\ UNCHANGED <<files, dirs, now, last, cv, db>>

\* the limit test on the count read before, the validation of the form data
\* and await saveVideoBytes
SaveStep(c) ==
  LET call == calls[c]
      validation == extractAndValidateVideo(call.file)
      named == ToLower(Extname(call.file[1].name))
      ext == IF named = <<>> THEN E_mp4 ELSE named
      saved == saveVideoBytesCore(call.file[1].bytes, call.recipeId, ext)
      refused(why) == /\ calls' = [calls EXCEPT ![c].pc = "done", ![c].res = why]
                      /\ UNCHANGED <<files, dirs>>
  IN  /\ call.pc = "counted"
      /\ IF call.currentCount >= MAX_RECIPE_VIDEOS THEN refused("Maximum videos allowed")
         ELSE IF validation # "ok" THEN refused(validation)
         ELSE /\ files' = saved.files
              /\ dirs' = saved.dirs
              /\ Cardinality(StoredIn(files')) <= MaxStored
              /\ calls' = [calls EXCEPT ![c].pc = "saved", ![c].url = saved.url]
      /\ UNCHANGED <<now, last, cv, db>>

\* await getRecipeOwnerId and await addRecipeVideos
InsertStep(c, dbFails) ==
  LET call == calls[c]
  IN  /\ call.pc = "saved"
      /\ IF getRecipeOwnerId(call.recipeId) = Null
           THEN /\ calls' = [calls EXCEPT ![c].pc = "done", ![c].res = "success"]
                /\ UNCHANGED db
         ELSE IF dbFails
           THEN /\ calls' = [calls EXCEPT ![c].pc = "done", ![c].res = "failed"]
                /\ UNCHANGED db
         ELSE /\ calls' = [calls EXCEPT ![c].pc = "done", ![c].res = "success"]
              /\ db' = addRecipeVideos(call.recipeId, call.url)
      /\ UNCHANGED <<files, dirs, now, last, cv>>

\* the procedure has returned to its caller
ReturnUpload(c) ==
  /\ calls[c].pc = "done"
  /\ calls' = [calls EXCEPT ![c] = IdleUpload]
  /\ UNCHANGED <<files, dirs, now, last, cv, db>>

InitUploads ==
  /\ files = [p \in {} |-> F_empty]
  /\ dirs = DirChain(RECIPES_BASE_DIR)
  /\ now = MaxClock - 1
  /\ last = NoOp
  /\ cv = CvIdle
  /\ db = [DbInit EXCEPT !.recipes = {RecipeRow(ID_A, "u1", <<>>)}]
  /\ calls = [c \in Callers |-> IdleUpload]

NextUploads ==
  \/ \E c \in Callers, r \in {ID_A, ID_B}, f \in UploadedFiles : CountStep(c, r, <<f>>)
  \/ \E c \in Callers : SaveStep(c)
  \/ \E c \in Callers, dbFails \in BOOLEAN : InsertStep(c, dbFails)
  \/ \E c \in Callers : ReturnUpload(c)
  \/ Tick

SpecUploads == InitUploads /\ [][NextUploads]_vars

\* C19: no recipe has more than MAX_RECIPE_VIDEOS video rows, whatever the
\* interleaving of the uploads, and an upload that is refused because of the
\* limit has stored neither a file nor a row.
C19_AtMostMaxVideos ==
  /\ \A r \in {ID_A, ID_B} : countRecipeVideos(r) <= MAX_RECIPE_VIDEOS
  /\ \A c \in Callers : calls[c].res = "Maximum videos allowed" => calls[c].url = <<>>

(***************************************************************************)
(* recipeExistsByUrlForPolicy                                              *)
(***************************************************************************)
\* the two values of JavaScript that stand for nothing
JsNull == [js |-> "null"]

JsUndefined == [js |-> "undefined"]

UserIds == {"u1", "u2", "u3"}

RecipeUrls == {"https://a.example/soup", "https://b.example/stew"}

\* householdUserIds: null, no member, or the members
Households == {JsNull} \cup {[js |-> "array", members |-> m] : m \in {{}, {"u2"}, {"u1", "u2"}}}

ViewPolicies == {"everyone", "household", "owner"}

\* the where condition the switch builds, as the test a row has to pass
whereCondition(url, userId, householdUserIds, viewPolicy, row) ==
  CASE viewPolicy = "everyone" -> row.url = url
    [] viewPolicy = "household" ->
         IF householdUserIds # JsNull /\ Cardinality(householdUserIds.members) > 0
           THEN LET userIds == IF userId \in householdUserIds.members
                                 THEN householdUserIds.members
                                 ELSE householdUserIds.members \cup {userId}
                IN  row.url = url /\ row.userId \in userIds
           ELSE row.url = url /\ row.userId = userId
    [] viewPolicy = "owner" -> row.url = url /\ row.userId = userId
    [] OTHER -> row.url = url /\ row.userId = userId

\* db.query.recipes.findFirst with columns { id }: a row that passes, and
\* undefined when no row does
findFirst(rows) ==
  IF rows = {} THEN {JsUndefined}
  ELSE {[js |-> "row", id |-> r.id] : r \in rows}

\* existing?.id
IdOf(existing) ==
  IF existing = JsNull \/ existing = JsUndefined THEN JsUndefined ELSE [js |-> "string", value |-> existing.id]

recipeExistsByUrlForPolicy(url, userId, householdUserIds, viewPolicy) ==
  /\ \E existing \in findFirst({ r \in db.recipes :
                                  whereCondition(url, userId, householdUserIds, viewPolicy, r) }) :
       last' = [op |-> "recipeExistsByUrlForPolicy", url |-> url, userId |-> userId,
                householdUserIds |-> householdUserIds, viewPolicy |-> viewPolicy,
                exists |-> existing # JsNull, existingRecipeId |-> IdOf(existing)]
  /\ UNCHANGED <<files, dirs, now, cv, db, calls>>

\* the recipes table: each of two recipes is absent or has an owner and a URL
RecipeTables ==
  LET rowsOf(id) == {{}} \cup {{RecipeRow(id, u, url)} : u \in UserIds, url \in RecipeUrls}
  IN  {a \cup b : a \in rowsOf(ID_A), b \in rowsOf(ID_B)}

InitExists ==
  /\ files = [p \in {} |-> F_empty]
  /\ dirs = DirChain(UPLOADS_DIR)
  /\ now = 9
  /\ last = [op |-> "none"]
  /\ cv = CvIdle
  /\ \E t \in RecipeTables : db = [DbInit EXCEPT !.recipes = t]
  /\ calls = NoCalls

NextExists ==
  \E url \in RecipeUrls, userId \in UserIds, h \in Households, p \in ViewPolicies :
    recipeExistsByUrlForPolicy(url, userId, h, p)

SpecExists == InitExists /\ [][NextExists]_vars

\* the owners the view policy lets the user see the recipes of
OwnerSet(userId, householdUserIds, viewPolicy) ==
  CASE viewPolicy = "everyone" -> UserIds
    [] viewPolicy = "household" ->
         (IF householdUserIds = JsNull THEN {} ELSE householdUserIds.members) \cup {userId}
    [] OTHER -> {userId}

\* C20: exists is true exactly when a recipe with the URL exists within the
\* owner set of the view policy, existingRecipeId is then the id of such a
\* recipe, and exists is false when there is none.
C20_ExistsIffRecipeInOwnerSet ==
  last.op = "recipeExistsByUrlForPolicy" =>
    LET matching == { r \in db.recipes :
                        /\ r.url = last.url
                        /\ r.userId \in OwnerSet(last.userId, last.householdUserIds,
                                                 last.viewPolicy) }
    IN  /\ last.exists = (matching # {})
        /\ matching # {} =>
             \E r \in matching : last.existingRecipeId = [js |-> "string", value |-> r.id]

\* the failed events the job has emitted
FailedEvents == SelectSeq(calls[1].emitted, LAMBDA e : e.event = "failed")

\* C22: a recipe-import or paste-import job has emitted failed only if its
\* last failed attempt was the final one (attemptsMade >= attempts, 3 when
\* not configured), and then exactly once; earlier failures emit nothing.
C22_FailedOnlyOnFinalFailure ==
  calls[1].name \in {"recipe-import", "paste-import"} =>
    Len(FailedEvents) =
      IF calls[1].pc = "handled" /\ calls[1].attemptsMade >= MaxAttemptsOf(calls[1])
        THEN 1 ELSE 0

\* a job without configured attempts whose third attempt failed: the two
\* earlier failures emitted nothing, the third emitted failed once
C22_Witness ==
  /\ calls[1].name = "recipe-import"
  /\ calls[1].attempts = 0
  /\ calls[1].attemptsMade = 3
  /\ calls[1].pc = "handled"
  /\ Len(FailedEvents) = 1

(***************************************************************************)
(* The import processors: processImportJob, processPasteImportJob and      *)
(* processImageImportJob, one step for each await                          *)
(***************************************************************************)
\* the url column of a recipe that has none: NULL, equal to no URL
NoUrl == ""

U_soup == "https://a.example/soup"

\* the job of a queue with the data of the processors: existingId and
\* createdId are what the attempt found and created, steps what it has done
ImportJob(name, userId, viewPolicy) ==
  [url |-> IF name = "recipe-import" THEN U_soup ELSE NoUrl, userId |-> userId,
   householdUserIds |-> JsNull, viewPolicy |-> viewPolicy, usedAI |-> FALSE,
   existingId |-> <<>>, createdId |-> <<>>, steps |-> {}] @@ NewJob(name, ID_A, 0)

\* emitByPolicy(recipeEmitter, ...)
Emit(job, event, recipe) ==
  [job EXCEPT !.emitted = Append(@, Event(event, job.recipeId, recipe))]

\* dashboardRecipe: the DTO of the row with the id, null when there is none
dashboardRecipe(id) ==
  IF \E r \in db.recipes : r.id = id THEN <<id>> ELSE Null

\* the attempt begins: getRecipePermissionPolicy, then importStarted
StartAttempt ==
  LET job == calls[1]
  IN  /\ job.pc = "active"
      /\ calls' = <<[Emit(job, "importStarted", <<>>) EXCEPT
                       !.pc = "started", !.usedAI = FALSE, !.existingId = <<>>,
                       !.createdId = <<>>, !.steps = {}]>>
      /\ UNCHANGED <<files, dirs, now, last, cv, db>>

\* processImportJob: await recipeExistsByUrlForPolicy and the test of its result
ExistsStep ==
  LET job == calls[1]
      rows == { r \in db.recipes :
                  whereCondition(job.url, job.userId, job.householdUserIds, job.viewPolicy, r) }
  IN  /\ job.pc = "started"
      /\ job.name = "recipe-import"
      /\ \E existing \in findFirst(rows) :
           LET existingCheck == [exists |-> existing # JsNull,
                                 existingRecipeId |-> IdOf(existing)]
           IN  calls' = IF existingCheck.exists /\ existingCheck.existingRecipeId # JsUndefined
                          THEN [calls EXCEPT ![1].pc = "existing",
                                             ![1].existingId = existingCheck.existingRecipeId.value]
                          ELSE [calls EXCEPT ![1].pc = "parsing"]
      /\ UNCHANGED <<files, dirs, now, last, cv, db>>

\* processImportJob: await dashboardRecipe(existingRecipeId), imported when
\* there is a DTO, and return
ExistingStep ==
  LET job == calls[1]
      dashboardDto == dashboardRecipe(job.existingId)
  IN  /\ job.pc = "existing"
      /\ calls' = <<[(IF dashboardDto # Null THEN Emit(job, "imported", dashboardDto[1]) ELSE job)
                       EXCEPT !.pc = "completed"]>>
      /\ UNCHANGED <<files, dirs, now, last, cv, db>>

\* await parseRecipeFromUrl / parseFromPastedText / extractRecipeFromImages:
\* ok tells whether a recipe came out, write whether an image of it was stored
ParseStep(ok, usedAI, write) ==
  LET job == calls[1]
      saved == saveImageBytesCore(B_jpgA, Join(RECIPES_BASE_DIR, job.recipeId),
                                  P_recipes \o job.recipeId)
      stores == write /\ job.name # "image-import"
  IN  /\ job.pc = (IF job.name = "recipe-import" THEN "parsing" ELSE "started")
      /\ job.name = "image-import" => usedAI
      /\ files' = IF stores THEN saved.files ELSE files
      /\ dirs' = IF stores THEN saved.dirs ELSE dirs
      /\ Cardinality(StoredIn(files')) <= MaxStored
      /\ calls' = IF ok
                    THEN [calls EXCEPT ![1].pc = "parsed", ![1].usedAI = usedAI,
                                       ![1].steps = @ \cup {"parse"},
                                       ![1].wrote = @ \/ stores]
                    ELSE [calls EXCEPT ![1].pc = "failed", ![1].attemptsMade = @ + 1,
                                       ![1].did = <<>>, ![1].rmFailed = FALSE,
                                       ![1].steps = @ \cup {"parse"},
                                       ![1].wrote = @ \/ stores]
      /\ UNCHANGED <<now, last, cv, db>>

\* await createRecipeWithRefs(recipeId, userId, recipe): the insert does
\* nothing on a conflict of (url, userId) and the id of the row that is there
\* is returned; a row with the same id makes the insert throw
CreateStep ==
  LET job == calls[1]
      conflicts == { r \in db.recipes :
                       job.url # NoUrl /\ r.url = job.url /\ r.userId = job.userId }
      taken == \E r \in db.recipes : r.id = job.recipeId
  IN  /\ job.pc = "parsed"
      /\ IF conflicts # {}
           THEN /\ calls' = [calls EXCEPT ![1].pc = "created",
                                          ![1].createdId = (CHOOSE r \in conflicts : TRUE).id,
                                          ![1].steps = @ \cup {"create"}]
                /\ UNCHANGED db
         ELSE IF taken
           THEN /\ calls' = [calls EXCEPT ![1].pc = "failed", ![1].attemptsMade = @ + 1,
                                          ![1].did = <<>>, ![1].rmFailed = FALSE]
                /\ UNCHANGED db
         ELSE /\ calls' = [calls EXCEPT ![1].pc = "created", ![1].createdId = job.recipeId,
                                        ![1].steps = @ \cup {"create"}]
              /\ db' = [db EXCEPT !.recipes = @ \cup {RecipeRow(job.recipeId, job.userId, job.url)}]
      /\ UNCHANGED <<files, dirs, now, last, cv>>

\* processImageImportJob: await saveImageBytes of the first uploaded image
\* inside a try/catch that only logs
SaveFirstImage(bytes) ==
  LET job == calls[1]
      saved == saveImageBytesCore(bytes, Join(RECIPES_BASE_DIR, job.recipeId),
                                  P_recipes \o job.recipeId)
  IN  /\ job.pc = "created"
      /\ job.name = "image-import"
      /\ files' = saved.files
      /\ dirs' = saved.dirs
      /\ Cardinality(StoredIn(files')) <= MaxStored
      /\ calls' = [calls EXCEPT ![1].pc = "imaged", ![1].wrote = TRUE]
      /\ UNCHANGED <<now, last, cv, db>>

\* await dashboardRecipe(createdId) and imported when there is a DTO
DashboardStep ==
  LET job == calls[1]
      dashboardDto == dashboardRecipe(job.createdId)
      queues == dashboardDto # Null /\ ~job.usedAI /\ job.name # "image-import"
  IN  /\ job.pc = (IF job.name = "image-import" THEN "imaged" ELSE "created")
      /\ calls' = <<[(IF dashboardDto # Null THEN Emit(job, "imported", dashboardDto[1]) ELSE job)
                       EXCEPT !.pc = IF queues THEN "queueing" ELSE "completed"]>>
      /\ UNCHANGED <<files, dirs, now, last, cv, db>>

\* await addAutoTaggingJob and await addAllergyDetectionJob
QueueStep ==
  /\ calls[1].pc = "queueing"
  /\ calls' = [calls EXCEPT ![1].pc = "completed", ![1].steps = @ \cup {"queue"}]
  /\ UNCHANGED <<files, dirs, now, last, cv, db>>

\* the awaits of the database and of the queues reject when the service fails
AwaitRejects ==
  /\ calls[1].pc \in {"started", "parsing", "existing", "parsed", "created", "imaged", "queueing"}
  /\ calls' = [calls EXCEPT ![1].pc = "failed", ![1].attemptsMade = @ + 1,
                            ![1].did = <<>>, ![1].rmFailed = FALSE]
  /\ UNCHANGED <<files, dirs, now, last, cv, db>>

\* what the worker and the queue do for the job
JobStep ==
  \/ StartAttempt
  \/ ExistsStep
  \/ ExistingStep
  \/ \E ok \in BOOLEAN, usedAI \in BOOLEAN, write \in BOOLEAN : ParseStep(ok, usedAI, write)
  \/ CreateStep
  \/ \E bytes \in {B_jpgA, B_junk} : SaveFirstImage(bytes)
  \/ DashboardStep
  \/ QueueStep
  \/ AwaitRejects
  \/ \E rmFails \in BOOLEAN : handleJobFailed(rmFails)
  \/ Retry

\* a job of one of the queues; the recipes table is empty or holds a recipe
\* with the URL of the recipe-import job
InitJob ==
  /\ files = [p \in {} |-> F_empty]
  /\ dirs = DirChain(RECIPES_BASE_DIR)
  /\ now = 9
  /\ last = Reply("none", <<>>, 0, "ok", <<>>, "none", "none")
  /\ cv = CvIdle
  /\ \E t \in {{}, {RecipeRow(ID_B, "u1", U_soup)}, {RecipeRow(ID_B, "u2", U_soup)}} :
       db = [DbInit EXCEPT !.recipes = t]
  /\ \E name \in ImportQueues, viewPolicy \in {"everyone", "owner"} :
       calls = <<ImportJob(name, "u1", viewPolicy)>>

\* meanwhile a user deletes a recipe
NextJob ==
  \/ JobStep
  \/ \E r \in {ID_A, ID_B}, dbFails \in BOOLEAN :
       /\ \E row \in db.recipes : row.id = r
       /\ deleteRecipeById(r, FALSE, dbFails)

SpecJob == InitJob /\ [][NextJob]_vars /\ WF_vars(JobStep)

\* the job has emitted the event for its pending recipe id
HasEmitted(event) ==
  \E i \in 1..Len(calls[1].emitted) :
    /\ calls[1].emitted[i].event = event
    /\ calls[1].emitted[i].recipeId = calls[1].recipeId

\* C21: a recipe-import attempt that found a recipe with the job's URL within
\* the scope of the view policy has, when it returns, neither parsed nor
\* created nor queued anything, and the last event it emitted is imported
\* with the existing recipe and the job's pending recipe id.
C21_ExistingRecipeIsReturned ==
  (calls[1].pc = "completed" /\ calls[1].existingId # <<>>) =>
    /\ calls[1].steps = {}
    /\ calls[1].emitted[Len(calls[1].emitted)] =
         Event("imported", calls[1].recipeId, calls[1].existingId)

\* C27: a job that has emitted importStarted eventually emits imported or
\* failed for its pending recipe id, and imported is never in the events of
\* a job without an importStarted before it.
C27_SkeletonIsResolved ==
  /\ HasEmitted("importStarted") ~> (HasEmitted("imported") \/ HasEmitted("failed"))
  /\ [](HasEmitted("imported") =>
          \E i, j \in 1..Len(calls[1].emitted) :
            /\ i < j
            /\ calls[1].emitted[i].event = "importStarted"
            /\ calls[1].emitted[j].event = "imported")

\* C28: when an attempt of a job has failed, and so when the handler deletes
\* the directory of the job's recipe id, the recipes table has no row with
\* that id.
C28_NoCleanupOfStoredRecipe ==
  calls[1].pc \in {"failed", "handled"} =>
    ~(\E r \in db.recipes : r.id = calls[1].recipeId)

(***************************************************************************)
(* Images of a JSON-LD image field                                         *)
(***************************************************************************)
U_large == [valid |-> TRUE, pathname |-> <<"/", "b", "/", "l", "a", "r", "g", "e", ".", "j", "p", "g">>]

\* the nodes of an image field: a string, or an object with url, contentUrl,
\* width and height, where Null is a property that is not there and 0 a
\* width or height that is not there or not a number
StringNode(url) == [type |-> "string", url |-> url, contentUrl |-> Null, width |-> 0, height |-> 0]

ObjectNode(url, contentUrl, width, height) ==
  [type |-> "object", url |-> url, contentUrl |-> contentUrl, width |-> width, height |-> height]

JsonLdNodes ==
  {StringNode(U_png), StringNode(U_bad),
   ObjectNode(U_noext, Null, 800, 600),
   ObjectNode(Null, U_large, 1200, 0),
   ObjectNode(U_large, U_bad, 2000, 1000),
   ObjectNode(U_png, Null, 100, 100),
   ObjectNode(Null, Null, 640, 480)}

MaxNodes == 3

\* the image field as the list of its items
ImageFields == UNION {[1..n -> JsonLdNodes] : n \in 0..MaxNodes}

\* c.width && c.height ? c.width * c.height : undefined, with 0 for undefined
area(c) == IF c.width # 0 /\ c.height # 0 THEN c.width * c.height ELSE 0

\* toCandidate: no candidate for a node without a URL or with one that new
\* URL() does not take
toCandidate(node) ==
  LET href == IF node.url # Null THEN node.url ELSE node.contentUrl
  IN  IF href = Null THEN Null
      ELSE IF ~href.valid THEN Null
      ELSE <<[url |-> href, width |-> node.width, height |-> node.height]>>

RECURSIVE DedupByUrl(_, _)
\* result.filter with the seen set: the first candidate of each URL
DedupByUrl(cands, seen) ==
  IF cands = <<>> THEN <<>>
  ELSE IF Head(cands).url \in seen THEN DedupByUrl(Tail(cands), seen)
  ELSE <<Head(cands)>> \o DedupByUrl(Tail(cands), seen \cup {Head(cands).url})

RECURSIVE CandidatesOf(_)
CandidatesOf(items) ==
  IF items = <<>> THEN <<>>
  ELSE toCandidate(Head(items)) \o CandidatesOf(Tail(items))

normalizeJsonLdImages(imageField) == DedupByUrl(CandidatesOf(imageField), {})

RECURSIVE InsertByArea(_, _)
\* the place Array.prototype.sort, which is stable, gives x among sorted
InsertByArea(sorted, x) ==
  IF sorted = <<>> THEN <<x>>
  ELSE IF area(Head(sorted)) >= area(x) THEN <<Head(sorted)>> \o InsertByArea(Tail(sorted), x)
  ELSE <<x>> \o sorted

RECURSIVE SortByArea(_)
SortByArea(cands) ==
  IF cands = <<>> THEN <<>>
  ELSE InsertByArea(SortByArea(SubSeq(cands, 1, Len(cands) - 1)), cands[Len(cands)])

\* withArea sorted by descending area, then withoutArea
Ordered(candidates) ==
  SortByArea(SelectSeq(candidates, LAMBDA c : area(c) # 0))
    \o SelectSeq(candidates, LAMBDA c : area(c) = 0)

\* a loop whose catch block throws the error of downloadImage on
NextAfterFailure_throws(call) == [call EXCEPT !.pc = "threw"]

\* catch (_e): fail silently and try the next candidate
NextAfterFailure(call) == [call EXCEPT !.i = @ + 1]

\* no call in flight
IdleJsonLd == [pc |-> "idle", fn |-> "none", imageField |-> <<>>, maxImages |-> 0,
               ordered |-> <<>>, i |-> 1, tried |-> <<>>, downloadedUrls |-> <<>>,
               result |-> Undefined]

\* the for loop has a candidate to try
LoopGoesOn(call) ==
  /\ call.i <= Len(call.ordered)
  /\ call.fn = "downloadAllImagesFromJsonLd" => Len(call.downloadedUrls) < call.maxImages

\* both functions up to the first await: the candidates and their order
CallJsonLd(fn, imageField, maxImages) ==
  LET candidates == normalizeJsonLdImages(imageField)
      call == [IdleJsonLd EXCEPT !.fn = fn, !.imageField = imageField,
                                 !.maxImages = maxImages, !.ordered = Ordered(candidates)]
  IN  /\ calls[1].pc = "idle"
      /\ calls' = <<IF LoopGoesOn(call) THEN [call EXCEPT !.pc = "loop"]
                    ELSE [call EXCEPT !.pc = "returned",
                                      !.result = IF fn = "downloadAllImagesFromJsonLd"
                                                   THEN <<>> ELSE Undefined]>>
      /\ UNCHANGED <<files, dirs, now, last, cv, db>>

\* one turn of the loop: await downloadImage(cand.url, recipeId)
TryCandidate(resp) ==
  LET call == calls[1]
      cand == call.ordered[call.i]
      r == downloadImageCore(cand.url, ID_A, resp)
      tried == Append(call.tried, [cand |-> cand, res |-> r.res, url |-> r.url])
      after == IF r.res # "ok" THEN NextAfterFailure([call EXCEPT !.tried = tried])
               ELSE IF call.fn = "downloadBestImageFromJsonLd"
                 THEN [call EXCEPT !.tried = tried, !.pc = "returned", !.result = r.url]
               ELSE [call EXCEPT !.tried = tried, !.i = @ + 1,
                                 !.downloadedUrls = Append(@, r.url)]
  IN  /\ call.pc = "loop"
      /\ files' = r.files
      /\ dirs' = r.dirs
      /\ Cardinality(StoredIn(files')) <= MaxStored
      /\ calls' = <<IF after.pc = "loop" /\ ~LoopGoesOn(after)
                      THEN [after EXCEPT !.pc = "returned",
                                         !.result = IF call.fn = "downloadAllImagesFromJsonLd"
                                                      THEN after.downloadedUrls ELSE Undefined]
                      ELSE after>>
      /\ UNCHANGED <<now, last, cv, db>>

\* the caller has the result
ReturnJsonLd ==
  /\ calls[1].pc = "returned"
  /\ calls' = <<IdleJsonLd>>
  /\ UNCHANGED <<files, dirs, now, last, cv, db>>

JsonLdResponses ==
  { x \in Responses : \/ x.fetch = "error"
                      \/ x.ok /\ x.contentType = M_jpeg /\ x.contentLength = -1
                              /\ x.bytes = B_pngA }

InitJsonLd ==
  /\ files = [p \in {} |-> F_empty]
  /\ dirs = DirChain(RECIPES_BASE_DIR)
  /\ now = 9
  /\ last = NoOp
  /\ cv = CvIdle
  /\ db = DbInit
  /\ calls = <<IdleJsonLd>>

NextJsonLd ==
  \/ \E fn \in {"downloadBestImageFromJsonLd", "downloadAllImagesFromJsonLd"},
        imageField \in ImageFields, maxImages \in {1, 2} :
       CallJsonLd(fn, imageField, maxImages)
  \/ \E resp \in JsonLdResponses : TryCandidate(resp)
  \/ ReturnJsonLd

SpecJsonLd == InitJsonLd /\ [][NextJsonLd]_vars

\* the URLs of the image field that are URLs
ValidUrlsOf(imageField) ==
  { u \in { (IF imageField[k].url # Null THEN imageField[k].url ELSE imageField[k].contentUrl) :
              k \in 1..Len(imageField) } : u # Null /\ u.valid }

\* the URLs stored by the candidates tried so far, in order
Successes == SelectSeq(calls[1].tried, LAMBDA t : t.res = "ok")

K_registration == "registration_enabled"

K_password == "password_auth_enabled"

K_prompts == "prompts"

K_oidc == "auth_provider_oidc"

K_github == "auth_provider_github"

K_google == "auth_provider_google"

AuthProviderKeys == {K_oidc, K_github, K_google}

\* the keys of REQUIRED_CONFIGS the model follows, in their order
REQUIRED_CONFIGS == <<K_registration, K_password, K_prompts>>

\* SERVER_CONFIG at a start: the credentials of each provider (Null when
\* they are not complete) and the content of the default prompt files
Envs ==
  [oidc : {Null, <<"o1">>, <<"o2">>}, github : {Null, <<"g1">>}, google : {Null, <<"c1">>},
   prompts : {"p1", "p2"}]

\* a row of server_config as getConfig gives it
ConfigRow(value, isOverridden) == [value |-> value, isOverridden |-> isOverridden]

\* the table during a start and what was done to it: each entry of log
\* names the function, the operation and the key
Seeding(config) == [config |-> config, log |-> <<>>]

getConfig(s, key) == IF key \in DOMAIN s.config THEN <<s.config[key]>> ELSE Null

configExists(s, key) == key \in DOMAIN s.config

setConfig(s, by, key, row) ==
  [config |-> (key :> row) @@ s.config,
   log |-> Append(s.log, [by |-> by, op |-> "setConfig", key |-> key])]

deleteConfig(s, by, key) ==
  [config |-> [k \in DOMAIN s.config \ {key} |-> s.config[k]],
   log |-> Append(s.log, [by |-> by, op |-> "deleteConfig", key |-> key])]

hasOAuthEnvConfigured(env) == env.oidc # Null \/ env.github # Null \/ env.google # Null

\* getDefaultValue of a key of REQUIRED_CONFIGS
DefaultValue(key, env) ==
  CASE key = K_registration -> ConfigRow(TRUE, FALSE)
    [] key = K_password -> ConfigRow(~hasOAuthEnvConfigured(env), FALSE)
    [] OTHER -> ConfigRow(env.prompts, FALSE)

RECURSIVE seedMissingConfigsFrom(_, _, _)
\* the for loop of seedMissingConfigs from the i-th key on
seedMissingConfigsFrom(s, env, i) ==
  IF i > Len(REQUIRED_CONFIGS) THEN s
  ELSE LET key == REQUIRED_CONFIGS[i]
       IN  seedMissingConfigsFrom(
             IF ~configExists(s, key)
               THEN setConfig(s, "seedMissingConfigs", key, DefaultValue(key, env))
               ELSE s,
             env, i + 1)

seedMissingConfigs(s, env) == seedMissingConfigsFrom(s, env, 1)

\* a sync that takes no row for overridden
IsOverridden_never(existing) == FALSE

\* existing.isOverridden
IsOverridden(existing) == existing.isOverridden

\* configsDiffer on the two configs without isOverridden
configsDiffer(stored, envValue) == stored.value # envValue

\* syncOIDCProvider, syncGitHubProvider and syncGoogleProvider are the same
\* but for the key and the variables of the environment
syncAuthProvider(s, by, key, envCredentials) ==
  LET hasEnvConfig == envCredentials # Null
      existing == getConfig(s, key)
      envConfig == ConfigRow(envCredentials[1], FALSE)
  IN  IF ~hasEnvConfig
        THEN IF existing # Null /\ ~IsOverridden(existing[1])
               THEN deleteConfig(s, by, key) ELSE s
      ELSE IF existing = Null THEN setConfig(s, by, key, envConfig)
      ELSE IF IsOverridden(existing[1]) THEN s
      ELSE IF configsDiffer(existing[1], envConfig.value) THEN setConfig(s, by, key, envConfig)
      ELSE s

syncOIDCProvider(s, env) == syncAuthProvider(s, "syncOIDCProvider", K_oidc, env.oidc)

syncGitHubProvider(s, env) == syncAuthProvider(s, "syncGitHubProvider", K_github, env.github)

syncGoogleProvider(s, env) == syncAuthProvider(s, "syncGoogleProvider", K_google, env.google)

importEnvAuthProvidersIfMissing(s, env) ==
  syncGoogleProvider(syncGitHubProvider(syncOIDCProvider(s, env), env), env)

syncPrompts(s, env) ==
  LET existing == getConfig(s, K_prompts)
  IN  IF existing = Null THEN s
      ELSE IF existing[1].isOverridden THEN s
      ELSE IF configsDiffer(existing[1], env.prompts)
        THEN setConfig(s, "syncPrompts", K_prompts, ConfigRow(env.prompts, FALSE))
      ELSE s

\* what setAuthProviderCache is given
loadAuthProvidersIntoCache(s) ==
  [github |-> getConfig(s, K_github), google |-> getConfig(s, K_google),
   oidc |-> getConfig(s, K_oidc),
   passwordEnabled |-> IF getConfig(s, K_password) = Null THEN FALSE
                       ELSE getConfig(s, K_password)[1].value]

\* a server start with the environment env
seedServerConfig(env) ==
  LET seeded == seedMissingConfigs(Seeding(db.config), env)
      synced == syncPrompts(importEnvAuthProvidersIfMissing(seeded, env), env)
  IN  /\ db' = [db EXCEPT !.config = synced.config]
      /\ last' = [op |-> "seedServerConfig", env |-> env, log |-> synced.log,
                  cache |-> loadAuthProvidersIntoCache(synced)]
      /\ UNCHANGED <<files, dirs, now, cv, calls>>

\* an admin edits a provider or the prompts: the row is stored as overridden
AdminEdits(key, value) ==
  /\ db' = [db EXCEPT !.config = (key :> ConfigRow(value, TRUE)) @@ @]
  /\ last' = [op |-> "adminEdits", env |-> Null, log |-> <<>>, cache |-> Null]
  /\ UNCHANGED <<files, dirs, now, cv, calls>>

\* the table of a new installation
InitSeed ==
  /\ files = [p \in {} |-> F_empty]
  /\ dirs = DirChain(UPLOADS_DIR)
  /\ now = 9
  /\ last = [op |-> "none", env |-> Null, log |-> <<>>, cache |-> Null]
  /\ cv = CvIdle
  /\ db = DbInit
  /\ calls = NoCalls

NextSeed ==
  \/ \E env \in Envs : seedServerConfig(env)
  \/ \E key \in {K_oidc, K_github}, value \in {"adm"} : AdminEdits(key, value)
  \/ /\ K_prompts \in DOMAIN db.config
     /\ AdminEdits(K_prompts, "padm")

SpecSeed == InitSeed /\ [][NextSeed]_vars

\* the keys the start has written or deleted, and those seedMissingConfigs wrote
Touched(log) == { log[i].key : i \in 1..Len(log) }

SeededKeys(log) == { log[i].key : i \in { j \in 1..Len(log) : log[j].by = "seedMissingConfigs" } }

\* C24: a server start neither writes nor deletes an auth provider row whose
\* isOverridden is true, whatever the environment, and seedMissingConfigs
\* writes no key that is in the table already.
C24_OverriddenAndExistingUntouched ==
  [][last'.op = "seedServerConfig" =>
       /\ \A p \in AuthProviderKeys :
            (p \in DOMAIN db.config /\ db.config[p].isOverridden) =>
              /\ ~(p \in Touched(last'.log))
              /\ p \in DOMAIN db'.config
              /\ db'.config[p] = db.config[p]
       /\ SeededKeys(last'.log) \cap DOMAIN db.config = {}]_vars

\* a start with OIDC credentials in the environment that differ from the
\* overridden row, which is still there as the admin left it
C24_Witness ==
  /\ last.op = "seedServerConfig"
  /\ last.env.oidc = <<"o1">>
  /\ K_oidc \in DOMAIN db.config
  /\ db.config[K_oidc] = ConfigRow("adm", TRUE)
  /\ K_github \in Touched(last.log)

\* C25: the cache loaded at the end of a server start offers a login method:
\* a provider or password authentication.
C25_SomeLoginMethod ==
  last.op = "seedServerConfig" =>
    \/ last.cache.github # Null
    \/ last.cache.google # Null
    \/ last.cache.oidc # Null
    \/ last.cache.passwordEnabled

(***************************************************************************)
(* Video file names                                                        *)
(***************************************************************************)
\* C26: a successful saveVideoBytes or saveVideoFile returns a URL that no
\* stored file has yet, so that no two saves for a recipe return the same
\* URL and no save writes over the file of an earlier one.
C26_VideoUrlsAreFresh ==
  [][(now' = now /\ last'.op \in {"saveVideoBytes", "saveVideoFile"} /\ last'.res = "ok") =>
       ~((UPLOADS_DIR \o last'.url) \in DOMAIN files)]_vars

====
